---------------------------- MODULE Spec2Model ----------------------------
(***************************************************************************)
(* Model of the fleetidy scoring engine: fred_postgres.py (eligibility     *)
(* cascade, component scores, insurance normalizer, percentile grades) and *)
(* iss_estimator.py (ISS group rules, seeded score, insufficient data).    *)
(*                                                                         *)
(* Rows are the CSV dictionaries of the program: functions from field      *)
(* names to the raw text of the field.  A missing key, None and '' are all *)
(* the text "".  Numbers with one decimal that the program holds as floats *)
(* are held in tenths, numbers with two decimals in hundredths.            *)
(***************************************************************************)
EXTENDS Integers, Sequences, FiniteSets, TLC

VARIABLES
    pc,           \* position of the driver of the specification in force
    census_row,   \* the census row handed to should_exclude_carrier
    exclusion,    \* what should_exclude_carrier returned for census_row
    iss_call,     \* the arguments of a direct call of estimate_iss
    iss_result,   \* the ISSResult of that call
    hashseed,     \* the string-hash salt of the running Python process
    carriers,     \* process_all_carriers: the list of carriers
    data,         \* process_all_carriers: the joined records, by DOT number
    results,      \* process_all_carriers: the results list
    prev_results, \* the results list of the previous run of the pipeline
    run,          \* which run of the pipeline is in progress
    census_rows,  \* load_all_data: the census rows kept for scoring
    score_call,   \* the arguments of a direct call of a component score
    score_result  \* the (score, flags) pair that call returned

vars == <<pc, census_row, exclusion, iss_call, iss_result, hashseed,
          carriers, data, results, prev_results, run,
          census_rows, score_call, score_result>>

\* Python's None; an optional value is <<>> (None) or <<v>>
None == <<>>
Some(v) == <<v>>

EmptyRow == [k \in {} |-> ""]

\* row.get(key, '') ; a key that is absent reads as ''
Get(row, key) == IF key \in DOMAIN row THEN row[key] ELSE ""

Max(a, b) == IF a >= b THEN a ELSE b
Min(a, b) == IF a <= b THEN a ELSE b

RECURSIVE SumSeq(_)
SumSeq(s) == IF s = <<>> THEN 0 ELSE Head(s) + SumSeq(Tail(s))

(***************************************************************************)
(* Text handling.  str.upper() and str.strip() over the texts that occur   *)
(* in the rows of the model.                                               *)
(***************************************************************************)
Upper(s) ==
    CASE s = "a" -> "A"
      [] s = "y" -> "Y"
      [] s = "x" -> "X"
      [] s = "yes" -> "YES"
      [] s = "true" -> "TRUE"
      [] s = " y " -> " Y "
      [] s = "authorized for hire" -> "AUTHORIZED FOR HIRE"
      [] OTHER -> s

Strip(s) ==
    CASE s = " Y " -> "Y"
      [] s = " y " -> "y"
      [] s = " A" -> "A"
      [] s = " 101 " -> "101"
      [] OTHER -> s

\* the decimal texts of the model and the number float() reads from each,
\* in tenths
FloatTable ==
    { <<"-20", -200>>, <<"-2", -20>>, <<"-1", -10>>, <<"0", 0>>, <<"1", 10>>, <<"2", 20>>,
      <<"3", 30>>, <<"4", 40>>, <<"5", 50>>, <<"6", 60>>, <<"7", 70>>,
      <<"9", 90>>, <<"10", 100>>, <<"19", 190>>, <<"20", 200>>,
      <<"49", 490>>, <<"50", 500>>, <<"99", 990>>, <<"100", 1000>>,
      <<"2.7", 27>>, <<"64.9", 649>>, <<"65", 650>>, <<"74.9", 749>>,
      <<"75", 750>>, <<"80", 800>>, <<"84.9", 849>>, <<"85", 850>>,
      <<"100.1", 1001>>, <<"150", 1500>>,
      <<"101", 1010>>, <<"102", 1020>>, <<"103", 1030>>, <<"104", 1040>>,
      <<"105", 1050>>, <<"106", 1060>>,
      <<"50000", 500000>>, <<"99999", 999990>>, <<"100000", 1000000>>,
      <<"200000", 2000000>>, <<"300000", 3000000>>, <<"-100000", -1000000>> }

IsFloatText(s) == \E p \in FloatTable : p[1] = s
FloatTenths(s) == (CHOOSE p \in FloatTable : p[1] = s)[2]

\* int(x) of a float: truncation toward zero
Trunc(tenths) == IF tenths >= 0 THEN tenths \div 10 ELSE -((-tenths) \div 10)

safe_int(value, default) ==
    IF value = "" THEN default
    ELSE IF IsFloatText(Strip(value)) THEN Trunc(FloatTenths(Strip(value)))
    ELSE default

\* safe_float, in tenths
safe_float(value, default) ==
    IF value = "" THEN default
    ELSE IF IsFloatText(Strip(value)) THEN FloatTenths(Strip(value))
    ELSE default

is_true_value(value) == Strip(Upper(value)) \in {"Y", "YES", "TRUE", "1", "X"}

(***************************************************************************)
(* should_exclude_carrier.  CLASSDEF is held as the sequence of its        *)
(* ';'-separated parts; a marker is in the text iff it is in one part      *)
(* (no marker contains ';').                                               *)
(***************************************************************************)
Markers == {"PRIVATE PASSENGER", "AUTHORIZED FOR HIRE", "EXEMPT FOR HIRE",
            "PRIVATE PROPERTY", "U. S. MAIL", "U.S. MAIL", "US MAIL"}

\* the markers that occur inside one (upper-cased) part of CLASSDEF
MarkersIn(part) ==
    CASE part = "PRIVATE PASSENGER (BUSINESS)" -> {"PRIVATE PASSENGER"}
      [] part = "PRIV. PASS.(NON-BUSINESS)" -> {}
      [] part \in Markers -> {part}
      [] OTHER -> {}

\* safe_str(carrier.get('CLASSDEF', '')) as its parts; '' has the one part ''
ClassdefParts(carrier) ==
    IF "CLASSDEF" \in DOMAIN carrier THEN carrier["CLASSDEF"] ELSE <<"">>

ClassdefUpper(carrier) ==
    [i \in 1..Len(ClassdefParts(carrier)) |-> Upper(ClassdefParts(carrier)[i])]

InText(marker, parts) == \E i \in 1..Len(parts) : marker \in MarkersIn(parts[i])

passenger_equipment_fields ==
    <<"OWNCOACH", "TRMCOACH", "TRPCOACH", "OWNBUS_16", "TRMBUS_16", "TRPBUS_16",
      "OWNSCHOOL_1_8", "OWNSCHOOL_9_15", "OWNSCHOOL_16",
      "TRMSCHOOL_1_8", "TRMSCHOOL_9_15", "TRMSCHOOL_16",
      "TRPSCHOOL_1_8", "TRPSCHOOL_9_15", "TRPSCHOOL_16",
      "OWNVAN_1_8", "OWNVAN_9_15", "TRMVAN_1_8", "TRMVAN_9_15", "TRPVAN_1_8",
      "TRPVAN_9_15", "OWNLIMO_1_8", "OWNLIMO_9_15", "OWNLIMO_16",
      "TRMLIMO_1_8", "TRMLIMO_9_15", "TRMLIMO_16",
      "TRPLIMO_1_8", "TRPLIMO_9_15", "TRPLIMO_16">>

truck_power_fields ==
    <<"TRUCK_UNITS", "POWER_UNITS", "OWNTRUCK", "OWNTRACT", "TRMTRUCK",
      "TRMTRACT", "TRPTRUCK", "TRPTRACT">>

\* sum(safe_int(carrier.get(f, '')) for f in fields)
SumFields(carrier, fields) ==
    SumSeq([i \in 1..Len(fields) |-> safe_int(Get(carrier, fields[i]), 0)])

StatusPresentNotActive(carrier) ==
    LET status_code == Strip(Upper(Get(carrier, "STATUS_CODE")))
    IN  status_code # "" /\ status_code # "A"

PassengerSignal(carrier) ==
    LET classdef_upper == ClassdefUpper(carrier)
    IN  \/ InText("PRIVATE PASSENGER", classdef_upper)
        \/ \E i \in 1..Len(classdef_upper) : classdef_upper[i] = "PASSENGER"
        \/ is_true_value(Get(carrier, "CRGO_PASSENGERS"))
        \/ SumFields(carrier, passenger_equipment_fields) > 0
        \/ is_true_value(Get(carrier, "PRIVATE_PASSENGER_BUSINESS"))
        \/ is_true_value(Get(carrier, "PRIVATE_PASSENGER_NONBUSINESS"))

total_truck_power(carrier) == SumFields(carrier, truck_power_fields)

\* the legacy flags are consulted before the CLASSDEF text
AuthorityOutcome_flags_first(carrier) ==
    LET classdef == ClassdefUpper(carrier)
        has_for_hire == \/ InText("AUTHORIZED FOR HIRE", classdef)
                        \/ InText("EXEMPT FOR HIRE", classdef)
        has_private_property == InText("PRIVATE PROPERTY", classdef)
        has_us_mail == \/ InText("U. S. MAIL", classdef)
                       \/ InText("U.S. MAIL", classdef)
                       \/ InText("US MAIL", classdef)
        is_private_property == is_true_value(Get(carrier, "PRIVATE_PROPERTY"))
        is_for_hire == \/ is_true_value(Get(carrier, "AUTHORIZED_FOR_HIRE"))
                       \/ is_true_value(Get(carrier, "EXEMPT_FOR_HIRE"))
        other_authority ==
            \E f \in {"US_MAIL", "FEDERAL_GOVERNMENT", "STATE_GOVERNMENT",
                      "LOCAL_GOVERNMENT", "INDIAN_TRIBE", "MIGRANT"} :
                is_true_value(Get(carrier, f))
    IN  IF is_private_property /\ ~is_for_hire THEN <<TRUE, "private_not_for_hire">>
        ELSE IF is_for_hire THEN <<FALSE, "">>
        ELSE IF other_authority THEN <<FALSE, "">>
        ELSE IF has_for_hire THEN <<FALSE, "">>
        ELSE IF has_us_mail THEN <<FALSE, "">>
        ELSE IF has_private_property THEN <<TRUE, "private_not_for_hire">>
        ELSE <<TRUE, "no_for_hire_authority">>

\* Rule 4 and the legacy fallback
AuthorityOutcome(carrier) ==
    LET classdef == ClassdefUpper(carrier)
        has_authorized_for_hire == InText("AUTHORIZED FOR HIRE", classdef)
        has_exempt_for_hire == InText("EXEMPT FOR HIRE", classdef)
        has_private_property == InText("PRIVATE PROPERTY", classdef)
        has_us_mail == \/ InText("U. S. MAIL", classdef)
                       \/ InText("U.S. MAIL", classdef)
                       \/ InText("US MAIL", classdef)
        is_private_property == is_true_value(Get(carrier, "PRIVATE_PROPERTY"))
        is_authorized_for_hire == is_true_value(Get(carrier, "AUTHORIZED_FOR_HIRE"))
        is_exempt_for_hire == is_true_value(Get(carrier, "EXEMPT_FOR_HIRE"))
        other_authority ==
            \/ is_true_value(Get(carrier, "US_MAIL"))
            \/ is_true_value(Get(carrier, "FEDERAL_GOVERNMENT"))
            \/ is_true_value(Get(carrier, "STATE_GOVERNMENT"))
            \/ is_true_value(Get(carrier, "LOCAL_GOVERNMENT"))
            \/ is_true_value(Get(carrier, "INDIAN_TRIBE"))
            \/ is_true_value(Get(carrier, "MIGRANT"))
    IN  IF has_authorized_for_hire \/ has_exempt_for_hire THEN <<FALSE, "">>
        ELSE IF has_us_mail THEN <<FALSE, "">>
        ELSE IF has_private_property THEN <<TRUE, "private_not_for_hire">>
        ELSE IF is_private_property /\ ~is_authorized_for_hire /\ ~is_exempt_for_hire
             THEN <<TRUE, "private_not_for_hire">>
        ELSE IF is_authorized_for_hire \/ is_exempt_for_hire THEN <<FALSE, "">>
        ELSE IF other_authority THEN <<FALSE, "">>
        ELSE <<TRUE, "no_for_hire_authority">>

should_exclude_carrier_swapped(carrier) ==
    IF PassengerSignal(carrier) THEN <<TRUE, "passenger_operation">>
    ELSE IF StatusPresentNotActive(carrier) THEN <<TRUE, "inactive_status">>
    ELSE IF total_truck_power(carrier) <= 0 THEN <<TRUE, "no_truck_power">>
    ELSE AuthorityOutcome(carrier)

should_exclude_carrier(carrier) ==
    IF StatusPresentNotActive(carrier) THEN <<TRUE, "inactive_status">>
    ELSE IF PassengerSignal(carrier) THEN <<TRUE, "passenger_operation">>
    ELSE IF total_truck_power(carrier) <= 0 THEN <<TRUE, "no_truck_power">>
    ELSE AuthorityOutcome(carrier)

(***************************************************************************)
(* iss_estimator.py                                                        *)
(***************************************************************************)
ROADSIDE_BASICS == {"HOS", "DRIVER_FIT", "CSAA", "VEH_MAINT", "HM"}
ALL_BASICS == {"UNSAFE", "HOS", "DRIVER_FIT", "CSAA", "VEH_MAINT", "HM", "CRASH"}

\* ISSConfig: the percentile column and the alert column of each BASIC
col_measure ==
    [b \in ALL_BASICS |->
        CASE b = "UNSAFE" -> "UNSAFE_DRIV_MEASURE"
          [] b = "HOS" -> "HOS_DRIV_MEASURE"
          [] b = "DRIVER_FIT" -> "DRIV_FIT_MEASURE"
          [] b = "CSAA" -> "CONTR_SUBST_MEASURE"
          [] b = "VEH_MAINT" -> "VEH_MAINT_MEASURE"
          [] b = "HM" -> "HM_MEASURE"
          [] b = "CRASH" -> "CRASH_MEASURE"]

col_alert ==
    [b \in ALL_BASICS |->
        CASE b = "UNSAFE" -> "UNSAFE_DRIV_ALERT"
          [] b = "HOS" -> "HOS_DRIV_ALERT"
          [] b = "DRIVER_FIT" -> "DRIV_FIT_ALERT"
          [] b = "CSAA" -> "CONTR_SUBST_ALERT"
          [] b = "VEH_MAINT" -> "VEH_MAINT_ALERT"
          [] b = "HM" -> "HM_ALERT"
          [] b = "CRASH" -> "CRASH_ALERT"]

get_alert(row, col) == Upper(Strip(Get(row, col))) \in {"Y", "YES", "TRUE", "1", "X"}

\* get_percentile without the test 0 <= pct <= 100
get_percentile_unbounded(row, col) ==
    LET val == Get(row, col)
    IN  IF val = "" THEN None
        ELSE IF IsFloatText(Strip(val)) THEN Some(FloatTenths(Strip(val)))
        ELSE None

\* the percentile in tenths, or None
get_percentile(row, col) ==
    LET val == Get(row, col)
    IN  IF val = "" THEN None
        ELSE IF IsFloatText(Strip(val))
             THEN IF 0 <= FloatTenths(Strip(val)) /\ FloatTenths(Strip(val)) <= 1000
                  THEN Some(FloatTenths(Strip(val)))
                  ELSE None
        ELSE None

get_int(row, col, default) ==
    LET val == Get(row, col)
    IN  IF val = "" THEN default
        ELSE IF IsFloatText(Strip(val)) THEN Trunc(FloatTenths(Strip(val)))
        ELSE default

\* random.Random(seed).randint(lo, hi), the first draw of the generator: a
\* fixed function of the seed with values in lo..hi (the Mersenne Twister
\* itself is not reproduced)
randint(seed, lo, hi) == lo + (seed % (hi - lo + 1))

\* hash(str) of CPython: 0 for the empty string, otherwise a value that is
\* fixed within one process and depends on the salt the process drew at
\* start-up (PYTHONHASHSEED unset); it may be negative
PyStrHash(s, salt) ==
    IF s = "" THEN 0
    ELSE (IF IsFloatText(s) THEN FloatTenths(s) \div 10 ELSE 7) * (2 * salt + 1)
            - 150 * salt

\* h % (2**31) for |h| < 2**31
Mod2p31(h) == IF h >= 0 THEN h ELSE (h + 2147483647) + 1

AtLeastHighRisk(p) == p # None /\ p[1] >= 850

\* assign_group with the Group 4 rule taking a single roadside alert too
assign_group_single_roadside(alerts, percentiles, n_alert_total, n_alert_roadside) ==
    LET has_any_percentile == \E b \in ALL_BASICS : percentiles[b] # None
        high_risk_alerts ==
            Cardinality({b \in {"UNSAFE", "HOS", "CRASH"} :
                            alerts[b] /\ AtLeastHighRisk(percentiles[b])})
    IN  IF ~has_any_percentile THEN None
        ELSE IF n_alert_total >= 4 THEN Some(1)
        ELSE IF n_alert_total >= 2 /\ high_risk_alerts >= 2 THEN Some(1)
        ELSE IF n_alert_roadside >= 3 THEN Some(2)
        ELSE IF n_alert_roadside = 2 THEN Some(3)
        ELSE IF n_alert_total >= 1 /\ n_alert_roadside = 1 THEN Some(4)
        ELSE IF n_alert_total = 1 /\ alerts["HOS"] THEN Some(5)
        ELSE IF n_alert_total = 1 /\ alerts["UNSAFE"] THEN Some(7)
        ELSE IF n_alert_total = 1 /\ alerts["CRASH"] THEN Some(8)
        ELSE IF n_alert_total = 1 /\ alerts["VEH_MAINT"] THEN Some(9)
        ELSE IF n_alert_total = 1 /\ alerts["DRIVER_FIT"] THEN Some(10)
        ELSE IF n_alert_total = 1 /\ alerts["CSAA"] THEN Some(11)
        ELSE IF n_alert_total = 1 /\ alerts["HM"] THEN Some(12)
        ELSE Some(13)

assign_group(alerts, percentiles, n_alert_total, n_alert_roadside) ==
    LET has_any_percentile == \E b \in ALL_BASICS : percentiles[b] # None
        high_risk_alerts ==
            Cardinality({b \in {"UNSAFE", "HOS", "CRASH"} :
                            alerts[b] /\ AtLeastHighRisk(percentiles[b])})
    IN  IF ~has_any_percentile THEN None
        ELSE IF n_alert_total >= 4 THEN Some(1)
        ELSE IF n_alert_total >= 2 /\ high_risk_alerts >= 2 THEN Some(1)
        ELSE IF n_alert_roadside >= 3 THEN Some(2)
        ELSE IF n_alert_roadside = 2 THEN Some(3)
        ELSE IF n_alert_total >= 2 /\ n_alert_roadside = 1 THEN Some(4)
        ELSE IF n_alert_total = 1 /\ alerts["HOS"] THEN Some(5)
        ELSE IF n_alert_total = 1 /\ alerts["UNSAFE"] THEN Some(7)
        ELSE IF n_alert_total = 1 /\ alerts["CRASH"] THEN Some(8)
        ELSE IF n_alert_total = 1 /\ alerts["VEH_MAINT"] THEN Some(9)
        ELSE IF n_alert_total = 1 /\ alerts["DRIVER_FIT"] THEN Some(10)
        ELSE IF n_alert_total = 1 /\ alerts["CSAA"] THEN Some(11)
        ELSE IF n_alert_total = 1 /\ alerts["HM"] THEN Some(12)
        ELSE IF has_any_percentile /\ n_alert_total = 0 THEN Some(13)
        ELSE Some(13)

\* safety_algorithm_score without the clamp to the band of the bucket
safety_algorithm_score_unclamped(group, seed) ==
    IF group \in {1, 2, 3, 4, 5}
    THEN (99 - (group - 1) * 4) + randint(seed, -3, 3)
    ELSE IF group \in {7, 8, 9, 10, 11, 12}
    THEN (74 - (group - 7) * 4) + randint(seed, -3, 3)
    ELSE IF group = 13 THEN randint(seed, 25, 49)
    ELSE 62

safety_algorithm_score(group, seed) ==
    IF group \in {1, 2, 3, 4, 5}
    THEN Max(75, Min(99, (99 - (group - 1) * 4) + randint(seed, -3, 3)))
    ELSE IF group \in {7, 8, 9, 10, 11, 12}
    THEN Max(50, Min(74, (74 - (group - 7) * 4) + randint(seed, -3, 3)))
    ELSE IF group = 13 THEN randint(seed, 25, 49)
    ELSE 62

ISSResult(score, bucket, source, group, case, alerts) ==
    [iss_score |-> score, bucket |-> bucket, source |-> source,
     group |-> group, case |-> case, alerts |-> alerts,
     confidence |-> "estimated"]

\* insufficient_data_algorithm with the fleet size falling back from
\* TRUCK_UNITS straight to 1
insufficient_data_algorithm_no_tot_pwr(carrier, basic_row, seed) ==
    LET vehicle_insp_ct == get_int(basic_row, "VEHICLE_INSP_CT", 0)
        driver_insp_ct == get_int(basic_row, "DRIVER_INSP_CT", 0)
        pu1 == get_int(carrier, "POWER_UNITS", 0)
        pu2 == IF pu1 = 0 THEN get_int(carrier, "TRUCK_UNITS", 0) ELSE pu1
        power_units == IF pu2 = 0 THEN 1 ELSE pu2
        fleet_score ==
            IF power_units >= 100 THEN 69
            ELSE IF power_units >= 50 THEN 68
            ELSE IF power_units >= 20 THEN 67
            ELSE IF power_units >= 10 THEN 66
            ELSE IF power_units >= 5 THEN 65
            ELSE IF power_units >= 2 THEN 64
            ELSE 63
        total_insp == vehicle_insp_ct + driver_insp_ct
        bin_score == Min(19, total_insp * 3)
    IN  IF vehicle_insp_ct >= 5 \/ driver_insp_ct >= 3
        THEN ISSResult(50, "Optional", "INSUFFICIENT", None, Some("D2"), EmptyRow)
        ELSE IF vehicle_insp_ct = 4 \/ driver_insp_ct = 2
        THEN ISSResult(randint(seed, 55, 62), "Optional", "INSUFFICIENT", None,
                       Some("D3"), EmptyRow)
        ELSE IF vehicle_insp_ct = 0 /\ driver_insp_ct = 0
        THEN ISSResult(fleet_score, "Optional", "INSUFFICIENT", None,
                       Some("D4"), EmptyRow)
        ELSE ISSResult(50 + bin_score, "Optional", "INSUFFICIENT", None,
                       Some("D5"), EmptyRow)

\* insufficient_data_algorithm with case D3 tested before case D2
insufficient_data_algorithm_d3_first(carrier, basic_row, seed) ==
    LET vehicle_insp_ct == get_int(basic_row, "VEHICLE_INSP_CT", 0)
        driver_insp_ct == get_int(basic_row, "DRIVER_INSP_CT", 0)
        pu1 == get_int(carrier, "POWER_UNITS", 0)
        pu2 == IF pu1 = 0 THEN get_int(carrier, "TRUCK_UNITS", 0) ELSE pu1
        power_units == IF pu2 = 0 THEN get_int(carrier, "TOT_PWR", 1) ELSE pu2
        fleet_score ==
            IF power_units >= 100 THEN 69
            ELSE IF power_units >= 50 THEN 68
            ELSE IF power_units >= 20 THEN 67
            ELSE IF power_units >= 10 THEN 66
            ELSE IF power_units >= 5 THEN 65
            ELSE IF power_units >= 2 THEN 64
            ELSE 63
        total_insp == vehicle_insp_ct + driver_insp_ct
        bin_score == Min(19, total_insp * 3)
    IN  IF vehicle_insp_ct = 4 \/ driver_insp_ct = 2
        THEN ISSResult(randint(seed, 55, 62), "Optional", "INSUFFICIENT", None,
                       Some("D3"), EmptyRow)
        ELSE IF vehicle_insp_ct >= 5 \/ driver_insp_ct >= 3
        THEN ISSResult(50, "Optional", "INSUFFICIENT", None, Some("D2"), EmptyRow)
        ELSE IF vehicle_insp_ct = 0 /\ driver_insp_ct = 0
        THEN ISSResult(fleet_score, "Optional", "INSUFFICIENT", None,
                       Some("D4"), EmptyRow)
        ELSE ISSResult(50 + bin_score, "Optional", "INSUFFICIENT", None,
                       Some("D5"), EmptyRow)

insufficient_data_algorithm(carrier, basic_row, seed) ==
    LET vehicle_insp_ct == get_int(basic_row, "VEHICLE_INSP_CT", 0)
        driver_insp_ct == get_int(basic_row, "DRIVER_INSP_CT", 0)
        pu1 == get_int(carrier, "POWER_UNITS", 0)
        pu2 == IF pu1 = 0 THEN get_int(carrier, "TRUCK_UNITS", 0) ELSE pu1
        power_units == IF pu2 = 0 THEN get_int(carrier, "TOT_PWR", 1) ELSE pu2
        fleet_score ==
            IF power_units >= 100 THEN 69
            ELSE IF power_units >= 50 THEN 68
            ELSE IF power_units >= 20 THEN 67
            ELSE IF power_units >= 10 THEN 66
            ELSE IF power_units >= 5 THEN 65
            ELSE IF power_units >= 2 THEN 64
            ELSE 63
        total_insp == vehicle_insp_ct + driver_insp_ct
        bin_score == Min(19, total_insp * 3)
    IN  IF vehicle_insp_ct >= 5 \/ driver_insp_ct >= 3
        THEN ISSResult(50, "Optional", "INSUFFICIENT", None, Some("D2"), EmptyRow)
        ELSE IF vehicle_insp_ct = 4 \/ driver_insp_ct = 2
        THEN ISSResult(randint(seed, 55, 62), "Optional", "INSUFFICIENT", None,
                       Some("D3"), EmptyRow)
        ELSE IF vehicle_insp_ct = 0 /\ driver_insp_ct = 0
        THEN ISSResult(fleet_score, "Optional", "INSUFFICIENT", None,
                       Some("D4"), EmptyRow)
        ELSE ISSResult(50 + bin_score, "Optional", "INSUFFICIENT", None,
                       Some("D5"), EmptyRow)

BucketOf(score) ==
    IF score >= 75 THEN "Inspect" ELSE IF score >= 50 THEN "Optional" ELSE "Pass"

\* the seed estimate_iss hands to random.Random; config_seed is ISSConfig.seed
rng_seed(carrier, config_seed, salt) ==
    IF config_seed # None /\ config_seed[1] # 0
    THEN config_seed[1]
    ELSE Mod2p31(PyStrHash(Get(carrier, "DOT_NUMBER"), salt))

\* basic_row is None or <<row>>
estimate_iss(carrier, basic_row, config_seed, salt) ==
    LET seed == rng_seed(carrier, config_seed, salt)
        row == basic_row[1]
        alerts == [b \in ALL_BASICS |-> get_alert(row, col_alert[b])]
        percentiles == [b \in ALL_BASICS |-> get_percentile(row, col_measure[b])]
        n_alert_total == Cardinality({b \in ALL_BASICS : alerts[b]})
        n_alert_roadside == Cardinality({b \in ROADSIDE_BASICS : alerts[b]})
        group == assign_group(alerts, percentiles, n_alert_total, n_alert_roadside)
        score == safety_algorithm_score(group[1], seed)
    IN  IF basic_row = None
        THEN insufficient_data_algorithm(carrier, EmptyRow, seed)
        ELSE IF group = None
        THEN insufficient_data_algorithm(carrier, row, seed)
        ELSE ISSResult(score, BucketOf(score), "SAFETY", group, None, alerts)

get_iss_display_data(carrier, basic_row, config_seed, salt) ==
    LET result == estimate_iss(carrier, basic_row, config_seed, salt)
    IN  [iss_score |-> result.iss_score, iss_bucket |-> result.bucket,
         iss_source |-> result.source, iss_group |-> result.group,
         iss_case |-> result.case, iss_alerts |-> result.alerts,
         iss_confidence |-> result.confidence]

(***************************************************************************)
(* fred_postgres.py: the component scores.  A score is a whole number of   *)
(* points while it is computed; process_carrier stores it in tenths.       *)
(***************************************************************************)
\* row.get(key, default) with a default other than ''
GetDefault(row, key, default) == IF key \in DOMAIN row THEN row[key] ELSE default

\* flags are the f-strings of the program, held as the text and its numbers
Flag(text, name, n) == [flag |-> text, name |-> name, n |-> n]

\* the ADD_DATE texts (YYYYMMDD) that are dates, each with
\* (datetime.now() - add_date).days for a run on 2026-11-04
AddDateAges ==
    { <<"20261001", 34>>, <<"20251104", 365>>, <<"20251103", 366>>,
      <<"20241104", 730>>, <<"20241103", 731>>, <<"20231105", 1095>>,
      <<"20231104", 1096>>, <<"20211104", 1826>>, <<"20211103", 1827>>,
      <<"20100315", 6078>>, <<"20270101", -58>> }

\* len(add_date_str) >= 8, over the texts of the model
LenAtLeast8(text) == text \notin {"", "2020", "202611"}

\* years_operating < k, with years_operating = days / 365.25
YearsBelow(days, k) == 100 * days < 36525 * k

calculate_experience_score(carrier) ==
    LET add_date_str == Get(carrier, "ADD_DATE")
        parses == \E p \in AddDateAges : p[1] = add_date_str
        days == (CHOOSE p \in AddDateAges : p[1] = add_date_str)[2]
        penalty ==
            IF add_date_str # "" /\ LenAtLeast8(add_date_str) /\ parses
            THEN IF YearsBelow(days, 1) THEN 30
                 ELSE IF YearsBelow(days, 2) THEN 20
                 ELSE IF YearsBelow(days, 3) THEN 10
                 ELSE IF YearsBelow(days, 5) THEN 5
                 ELSE 0
            ELSE 0
    IN  Max(0, 100 - penalty)

basic_categories ==
    << <<"UNSAFE_DRIV_MEASURE", "UNSAFE_DRIV_ALERT", "Unsafe Driving">>,
       <<"HOS_DRIV_MEASURE", "HOS_DRIV_ALERT", "Hours-of-Service">>,
       <<"DRIV_FIT_MEASURE", "DRIV_FIT_ALERT", "Driver Fitness">>,
       <<"CONTR_SUBST_MEASURE", "CONTR_SUBST_ALERT", "Controlled Substances">>,
       <<"VEH_MAINT_MEASURE", "VEH_MAINT_ALERT", "Vehicle Maintenance">>,
       <<"HM_MEASURE", "HM_ALERT", "Hazardous Materials">>,
       <<"CRASH_MEASURE", "CRASH_ALERT", "Crash Indicator">> >>

\* what one BASIC category takes off the safety score
SafetyDeduction(basic, cat) ==
    LET measure == safe_float(Get(basic, cat[1]), 0)
        has_alert == is_true_value(Get(basic, cat[2]))
    IN  IF has_alert THEN 15
        ELSE IF measure >= 750 THEN 10
        ELSE IF measure >= 650 THEN 5
        ELSE 0

RECURSIVE SafetyFlags(_, _)
SafetyFlags(basic, k) ==
    IF k > Len(basic_categories) THEN <<>>
    ELSE (IF is_true_value(Get(basic, basic_categories[k][2]))
          THEN <<Flag("BASIC Alert", basic_categories[k][3], 0)>>
          ELSE <<>>) \o SafetyFlags(basic, k + 1)

calculate_safety_score_nofloor(carrier, basic_data) ==
    IF basic_data = <<>> THEN <<100, <<>> >>
    ELSE LET basic == basic_data[1]
             deducted == SumSeq([k \in 1..Len(basic_categories) |->
                                    SafetyDeduction(basic, basic_categories[k])])
         IN  <<100 - deducted, SafetyFlags(basic, 1)>>

\* returns <<score, flags>>
calculate_safety_score(carrier, basic_data) ==
    IF basic_data = <<>> THEN <<100, <<>> >>
    ELSE LET basic == basic_data[1]
             deducted == SumSeq([k \in 1..Len(basic_categories) |->
                                    SafetyDeduction(basic, basic_categories[k])])
         IN  <<Max(0, 100 - deducted), SafetyFlags(basic, 1)>>

\* the three deductions without their caps
calculate_crash_score_uncapped(carrier, crashes) ==
    IF crashes = <<>> THEN <<100, <<>> >>
    ELSE
    LET total_crashes == Len(crashes)
        fatalities == SumSeq([k \in 1..Len(crashes) |->
                                 safe_int(Get(crashes[k], "FATALITIES"), 0)])
        injuries == SumSeq([k \in 1..Len(crashes) |->
                               safe_int(Get(crashes[k], "INJURIES"), 0)])
        hazmat_releases ==
            Cardinality({k \in 1..Len(crashes) :
                            is_true_value(Get(crashes[k], "HAZMAT_RELEASED"))})
        d1 == IF fatalities > 0 THEN fatalities * 25 ELSE 0
        d2 == IF injuries > 0 THEN injuries * 5 ELSE 0
        d3 == IF hazmat_releases > 0 THEN hazmat_releases * 10 ELSE 0
        d4 == IF total_crashes >= 5 THEN 15
              ELSE IF total_crashes >= 3 THEN 10 ELSE 0
        flags ==
            (IF fatalities > 0 THEN <<Flag("FATAL crashes", "", fatalities)>> ELSE <<>>)
            \o (IF injuries > 0
                THEN <<Flag("Multiple injury crashes", "", injuries)>> ELSE <<>>)
            \o (IF hazmat_releases > 0
                THEN <<Flag("Hazmat releases", "", hazmat_releases)>> ELSE <<>>)
            \o (IF total_crashes >= 1
                THEN <<Flag("High crash frequency", "", total_crashes)>> ELSE <<>>)
    IN  <<Max(0, 100 - d1 - d2 - d3 - d4), flags>>

calculate_crash_score(carrier, crashes) ==
    IF crashes = <<>> THEN <<100, <<>> >>
    ELSE
    LET total_crashes == Len(crashes)
        fatalities == SumSeq([k \in 1..Len(crashes) |->
                                 safe_int(Get(crashes[k], "FATALITIES"), 0)])
        injuries == SumSeq([k \in 1..Len(crashes) |->
                               safe_int(Get(crashes[k], "INJURIES"), 0)])
        hazmat_releases ==
            Cardinality({k \in 1..Len(crashes) :
                            is_true_value(Get(crashes[k], "HAZMAT_RELEASED"))})
        d1 == IF fatalities > 0 THEN Min(50, fatalities * 25) ELSE 0
        d2 == IF injuries > 0 THEN Min(30, injuries * 5) ELSE 0
        d3 == IF hazmat_releases > 0 THEN Min(20, hazmat_releases * 10) ELSE 0
        d4 == IF total_crashes >= 5 THEN 15
              ELSE IF total_crashes >= 3 THEN 10 ELSE 0
        flags ==
            (IF fatalities > 0 THEN <<Flag("FATAL crashes", "", fatalities)>> ELSE <<>>)
            \o (IF injuries > 0
                THEN <<Flag("Multiple injury crashes", "", injuries)>> ELSE <<>>)
            \o (IF hazmat_releases > 0
                THEN <<Flag("Hazmat releases", "", hazmat_releases)>> ELSE <<>>)
            \o (IF total_crashes >= 1
                THEN <<Flag("High crash frequency", "", total_crashes)>> ELSE <<>>)
    IN  <<Max(0, 100 - d1 - d2 - d3 - d4), flags>>

\* round-half-even of the fraction n / d (d > 0) to a whole number
RoundHalfEven(n, d) ==
    LET q == n \div d
        r == n % d
    IN  IF 2 * r > d THEN q + 1
        ELSE IF 2 * r < d THEN q
        ELSE IF q % 2 = 0 THEN q ELSE q + 1

\* the BASIC_Desc values in the order they first occur
RECURSIVE FirstOccurrences(_)
FirstOccurrences(seq) ==
    IF seq = <<>> THEN <<>>
    ELSE LET init == FirstOccurrences(SubSeq(seq, 1, Len(seq) - 1))
             last == seq[Len(seq)]
         IN  IF \E k \in 1..Len(init) : init[k] = last THEN init
             ELSE Append(init, last)

PatternFlags(violations) ==
    LET descs == [k \in 1..Len(violations) |->
                     GetDefault(violations[k], "BASIC_Desc", "Unknown")]
        keys == FirstOccurrences(descs)
        count(b) == Cardinality({k \in 1..Len(descs) : descs[k] = b})
        flagged == SelectSeq(keys, LAMBDA b : count(b) >= 10)
    IN  [k \in 1..Len(flagged) |-> Flag("Pattern", flagged[k], count(flagged[k]))]

\* the 20 tier flags like the two tiers above it
calculate_inspection_score_flag_every_tier(carrier, inspections, violations) ==
    IF inspections = <<>> THEN <<100, <<>> >>
    ELSE
    LET total_inspections == Len(inspections)
        oos_count == Cardinality({k \in 1..Len(inspections) :
                                     is_true_value(Get(inspections[k], "OOS_TOTAL"))})
        RateAtLeast(t) == oos_count * 100 >= t * total_inspections
        rate_text == RoundHalfEven(oos_count * 1000, total_inspections)
        deducted == IF RateAtLeast(50) THEN 30
                    ELSE IF RateAtLeast(30) THEN 20
                    ELSE IF RateAtLeast(20) THEN 10
                    ELSE 0
        oos_flags == IF RateAtLeast(50) THEN <<Flag("High OOS rate", "", rate_text)>>
                     ELSE IF RateAtLeast(20)
                          THEN <<Flag("Elevated OOS rate", "", rate_text)>>
                     ELSE <<>>
    IN  <<Max(0, 100 - deducted), oos_flags \o PatternFlags(violations)>>

calculate_inspection_score(carrier, inspections, violations) ==
    IF inspections = <<>> THEN <<100, <<>> >>
    ELSE
    LET total_inspections == Len(inspections)
        oos_count == Cardinality({k \in 1..Len(inspections) :
                                     is_true_value(Get(inspections[k], "OOS_TOTAL"))})
        \* oos_rate >= t, with oos_rate = (oos_count / total_inspections) * 100
        RateAtLeast(t) == oos_count * 100 >= t * total_inspections
        \* the rate as "{:.1f}" prints it, in tenths
        rate_text == RoundHalfEven(oos_count * 1000, total_inspections)
        deducted == IF RateAtLeast(50) THEN 30
                    ELSE IF RateAtLeast(30) THEN 20
                    ELSE IF RateAtLeast(20) THEN 10
                    ELSE 0
        oos_flags == IF RateAtLeast(50) THEN <<Flag("High OOS rate", "", rate_text)>>
                     ELSE IF RateAtLeast(30)
                          THEN <<Flag("Elevated OOS rate", "", rate_text)>>
                     ELSE <<>>
    IN  <<Max(0, 100 - deducted), oos_flags \o PatternFlags(violations)>>

(***************************************************************************)
(* process_carrier.  The result keeps the fields the scoring engine reads  *)
(* or writes; the name, address, contact, equipment and trend fields are   *)
(* copied from the input and are left out.                                 *)
(***************************************************************************)
HAS_ISS == TRUE

\* round(x, 1) of a number of hundredths, in tenths
Round1(hundredths) == RoundHalfEven(hundredths, 10)

combined_score_unweighted(experience_score, safety_score, crash_score, inspection_score) ==
    Round1(25 * experience_score + 25 * safety_score
             + 25 * crash_score + 25 * inspection_score)

\* round(0.15 e + 0.35 s + 0.30 c + 0.20 i, 1), in tenths
combined_score(experience_score, safety_score, crash_score, inspection_score) ==
    Round1(15 * experience_score + 35 * safety_score
             + 30 * crash_score + 20 * inspection_score)

\* exactly 100000 miles is not enough
has_sufficient_mileage_above(mileage) == mileage > 100000

has_sufficient_mileage(mileage) == mileage >= 100000

process_carrier(carrier, d, salt) ==
    LET dot == Strip(Get(carrier, "DOT_NUMBER"))
        basic_data == GetDefault(d.basic_by_dot, dot, <<>>)
        crashes == GetDefault(d.crashes_by_dot, dot, <<>>)
        inspections == GetDefault(d.inspections_by_dot, dot, <<>>)
        violations == GetDefault(d.violations_by_dot, dot, <<>>)
        experience_score == calculate_experience_score(carrier)
        safety == calculate_safety_score(carrier, basic_data)
        crash == calculate_crash_score(carrier, crashes)
        inspection == calculate_inspection_score(carrier, inspections, violations)
        m1 == safe_int(Get(carrier, "MCS150_MILEAGE"), 0)
        mileage == IF m1 = 0 THEN safe_int(Get(carrier, "TOT_MILEAGE"), 0) ELSE m1
        has_iss == HAS_ISS /\ basic_data # <<>>
        iss_data == get_iss_display_data(carrier, Some(basic_data[1]), None, salt)
    IN  [dot_number |-> dot,
         experience_score |-> 10 * experience_score,
         safety_score |-> 10 * safety[1],
         crash_score |-> 10 * crash[1],
         inspection_score |-> 10 * inspection[1],
         combined_score |-> combined_score(experience_score, safety[1],
                                           crash[1], inspection[1]),
         risk_flags |-> safety[2] \o crash[2] \o inspection[2],
         annual_mileage |-> mileage,
         has_sufficient_mileage |-> has_sufficient_mileage(mileage),
         iss_score |-> IF has_iss THEN Some(iss_data.iss_score) ELSE None,
         iss_bucket |-> IF has_iss THEN Some(iss_data.iss_bucket) ELSE None,
         iss_source |-> IF has_iss THEN Some(iss_data.iss_source) ELSE None,
         crash_count |-> Len(crashes),
         inspection_count |-> Len(inspections),
         violation_count |-> Len(violations),
         rank |-> None,
         fred_score_grade |-> None,
         insurance_rating |-> None]

(***************************************************************************)
(* Phase B.  The floats of calculate_insurance_ratings are held as exact   *)
(* fractions <<n, d>> with d > 0; round(rating, 2) is taken half-even (on  *)
(* an exact tie the double of the program may lie on either side of it).   *)
(***************************************************************************)
RECURSIVE GCD(_, _)
GCD(a, b) == IF b = 0 THEN a ELSE GCD(b, a % b)

Abs(a) == IF a < 0 THEN -a ELSE a

Frac(n, d) ==
    LET g == GCD(Abs(n), d)
    IN  IF n = 0 THEN <<0, 1>> ELSE <<n \div g, d \div g>>

FMul(a, b) == Frac(a[1] * b[1], a[2] * b[2])
\* a / b for b > 0
FDiv(a, b) == Frac(a[1] * b[2], a[2] * b[1])
FAdd(a, b) == Frac(a[1] * b[2] + b[1] * a[2], a[2] * b[2])
FLess(a, b) == a[1] * b[2] < b[1] * a[2]
FMax(a, b) == IF FLess(a, b) THEN b ELSE a
FMin(a, b) == IF FLess(b, a) THEN b ELSE a

\* the indices of the results with has_sufficient_mileage, in list order
EligibleIdx(res) ==
    SelectSeq([i \in 1..Len(res) |-> i], LAMBDA i : res[i].has_sufficient_mileage)

\* (total / total_mileage) * 100000, or 0 when total_mileage is not positive
GlobalRate(total, total_mileage) ==
    IF total_mileage > 0 THEN FMul(Frac(total, total_mileage), <<100000, 1>>)
    ELSE <<0, 1>>

rating_unclamped(r, global_viol_rate, global_crash_rate) ==
    LET mileage_100k == Frac(r.annual_mileage, 100000)
        viol_rate == FDiv(<<r.violation_count, 1>>, mileage_100k)
        crash_rate == FDiv(<<r.crash_count, 1>>, mileage_100k)
        viol_mult == IF global_viol_rate[1] > 0
                     THEN FDiv(viol_rate, global_viol_rate) ELSE <<1, 1>>
        crash_mult == IF global_crash_rate[1] > 0
                      THEN FDiv(crash_rate, global_crash_rate) ELSE <<1, 1>>
        rating == FMul(<<100, 1>>, FAdd(FMul(<<2, 5>>, viol_mult),
                                        FMul(<<3, 5>>, crash_mult)))
    IN  RoundHalfEven(100 * rating[1], rating[2])

\* the rating of one eligible carrier, in hundredths
carrier_rating(r, global_viol_rate, global_crash_rate) ==
    LET mileage_100k == Frac(r.annual_mileage, 100000)
        viol_rate == FDiv(<<r.violation_count, 1>>, mileage_100k)
        crash_rate == FDiv(<<r.crash_count, 1>>, mileage_100k)
        viol_mult == IF global_viol_rate[1] > 0
                     THEN FDiv(viol_rate, global_viol_rate) ELSE <<1, 1>>
        crash_mult == IF global_crash_rate[1] > 0
                      THEN FDiv(crash_rate, global_crash_rate) ELSE <<1, 1>>
        rating == FMul(<<100, 1>>, FAdd(FMul(<<2, 5>>, viol_mult),
                                        FMul(<<3, 5>>, crash_mult)))
        clamped == FMax(<<1, 1>>, FMin(<<500, 1>>, rating))
    IN  RoundHalfEven(100 * clamped[1], clamped[2])

\* the totals run along with the loop instead of being reduced before it
calculate_insurance_ratings_streaming(res) ==
    LET TotalUpTo(i, field) ==
            SumSeq([k \in 1..i |-> IF res[k].has_sufficient_mileage
                                   THEN res[k][field] ELSE 0])
    IN  [i \in 1..Len(res) |->
            IF res[i].has_sufficient_mileage /\ res[i].annual_mileage > 0
            THEN [res[i] EXCEPT !.insurance_rating =
                    Some(carrier_rating(res[i],
                            GlobalRate(TotalUpTo(i, "violation_count"),
                                       TotalUpTo(i, "annual_mileage")),
                            GlobalRate(TotalUpTo(i, "crash_count"),
                                       TotalUpTo(i, "annual_mileage"))))]
            ELSE res[i]]

\* the results list after calculate_insurance_ratings
calculate_insurance_ratings(res) ==
    LET eligible == EligibleIdx(res)
        total_violations ==
            SumSeq([k \in 1..Len(eligible) |-> res[eligible[k]].violation_count])
        total_crashes ==
            SumSeq([k \in 1..Len(eligible) |-> res[eligible[k]].crash_count])
        total_mileage ==
            SumSeq([k \in 1..Len(eligible) |-> res[eligible[k]].annual_mileage])
        global_viol_rate == GlobalRate(total_violations, total_mileage)
        global_crash_rate == GlobalRate(total_crashes, total_mileage)
    IN  IF eligible = <<>> THEN res
        ELSE [i \in 1..Len(res) |->
                IF res[i].has_sufficient_mileage /\ res[i].annual_mileage > 0
                THEN [res[i] EXCEPT !.insurance_rating =
                        Some(carrier_rating(res[i], global_viol_rate,
                                            global_crash_rate))]
                ELSE res[i]]

grade_thresholds ==
    << <<3, "A+">>, <<10, "A">>, <<20, "A-">>, <<30, "B+">>, <<45, "B">>,
       <<55, "B-">>, <<65, "C+">>, <<75, "C">>, <<85, "C-">>, <<90, "D+">>,
       <<96, "D">>, <<98, "D-">>, <<100, "F">> >>

\* percentile taken from the 1-based rank: (i + 1) / n
GradeAt_one_based(i, n) ==
    LET hits == SelectSeq(grade_thresholds, LAMBDA t : 100 * (i + 1) <= t[1] * n)
    IN  IF hits = <<>> THEN None ELSE Some(hits[1][2])

\* the grade of 0-based position i among n: the first threshold (in
\* hundredths) with i / n <= threshold, or None when there is none
GradeAt(i, n) ==
    LET hits == SelectSeq(grade_thresholds, LAMBDA t : 100 * i <= t[1] * n)
    IN  IF hits = <<>> THEN None ELSE Some(hits[1][2])

\* eligible.sort(key=combined_score) without reverse=True
SortedPosition_ascending(res, i) ==
    1 + Cardinality({j \in 1..Len(res) :
            /\ res[j].has_sufficient_mileage
            /\ \/ res[j].combined_score < res[i].combined_score
               \/ (res[j].combined_score = res[i].combined_score /\ j < i)})

\* eligible.sort(key=combined_score, reverse=True): the 1-based position of
\* result i; the sort is stable, equal scores keep their list order
SortedPosition(res, i) ==
    1 + Cardinality({j \in 1..Len(res) :
            /\ res[j].has_sufficient_mileage
            /\ \/ res[j].combined_score > res[i].combined_score
               \/ (res[j].combined_score = res[i].combined_score /\ j < i)})

\* every result is ranked and graded, eligible or not
assign_fred_grades_all(res) ==
    [i \in 1..Len(res) |->
        LET pos == 1 + Cardinality({j \in 1..Len(res) :
                        \/ res[j].combined_score > res[i].combined_score
                        \/ (res[j].combined_score = res[i].combined_score /\ j < i)})
            grade == GradeAt(pos - 1, Len(res))
        IN  [res[i] EXCEPT !.rank = Some(pos),
                           !.fred_score_grade = IF grade = None THEN @ ELSE grade]]

\* results.sort(...) on the results list itself: the eligible results come
\* first, in rank order, the others keep their order behind them
assign_fred_grades_in_place(res) ==
    LET eligible == EligibleIdx(res)
        n == Len(eligible)
        others == SelectSeq([i \in 1..Len(res) |-> i],
                            LAMBDA i : ~res[i].has_sufficient_mileage)
        at(pos) == CHOOSE i \in 1..Len(res) :
                        res[i].has_sufficient_mileage /\ SortedPosition(res, i) = pos
        grade(pos) == GradeAt(pos - 1, n)
    IN  [p \in 1..Len(res) |->
            IF p <= n
            THEN [res[at(p)] EXCEPT !.rank = Some(p),
                                    !.fred_score_grade =
                                        IF grade(p) = None THEN @ ELSE grade(p)]
            ELSE res[others[p - n]]]

\* the results list after assign_fred_grades
assign_fred_grades(res) ==
    LET n == Len(EligibleIdx(res))
    IN  [i \in 1..Len(res) |->
            IF res[i].has_sufficient_mileage
            THEN LET pos == SortedPosition(res, i)
                     grade == GradeAt(pos - 1, n)
                 IN  [res[i] EXCEPT !.rank = Some(pos),
                                    !.fred_score_grade =
                                        IF grade = None THEN @ ELSE grade]
            ELSE res[i]]

\* the share of one grade in the distribution summary, as the fraction
\* <<100 * count, n>>; None stands for the ZeroDivisionError of
\* count / len(eligible)
grade_share_unguarded(count, n) ==
    IF n = 0 THEN None ELSE Some(<<100 * count, n>>)

grade_share(count, n) ==
    IF n # 0 THEN Some(<<100 * count, n>>) ELSE Some(<<0, 1>>)

\* whether the summary loop at the end of assign_fred_grades raises
assign_fred_grades_raises(res) ==
    LET n == Len(EligibleIdx(res))
        grade_counts(g) ==
            Cardinality({i \in 1..Len(res) :
                            /\ res[i].has_sufficient_mileage
                            /\ GradeAt(SortedPosition(res, i) - 1, n) = Some(g)})
    IN  \E k \in 1..Len(grade_thresholds) :
            grade_share(grade_counts(grade_thresholds[k][2]), n) = None

(***************************************************************************)
(* The census rows the classifier is run on: every combination of a status,*)
(* a CLASSDEF text, a passenger signal, a power-unit pattern and the       *)
(* legacy authority flags.                                                 *)
(***************************************************************************)
StatusRows ==
    {EmptyRow, "STATUS_CODE" :> "A", "STATUS_CODE" :> "a", "STATUS_CODE" :> "I"}

ClassdefRows ==
    {EmptyRow,
     "CLASSDEF" :> <<"AUTHORIZED FOR HIRE">>,
     "CLASSDEF" :> <<"authorized for hire", "PRIVATE PROPERTY">>,
     "CLASSDEF" :> <<"EXEMPT FOR HIRE">>,
     "CLASSDEF" :> <<"PRIVATE PROPERTY">>,
     "CLASSDEF" :> <<"PRIVATE PROPERTY", "U.S. MAIL">>,
     "CLASSDEF" :> <<"FEDERAL GOVERNMENT">>,
     "CLASSDEF" :> <<"AUTHORIZED FOR HIRE", "PASSENGER">>,
     "CLASSDEF" :> <<"PRIVATE PASSENGER (BUSINESS)", "PRIVATE PROPERTY">>}

PassengerRows ==
    {EmptyRow,
     "CRGO_PASSENGERS" :> "Y",
     "CRGO_PASSENGERS" :> "N",
     "OWNCOACH" :> "2",
     ("OWNBUS_16" :> "1") @@ ("OWNVAN_1_8" :> "-1"),
     "PRIVATE_PASSENGER_BUSINESS" :> "X",
     "PRIVATE_PASSENGER_NONBUSINESS" :> "1"}

PowerRows ==
    {EmptyRow,
     "POWER_UNITS" :> "3",
     ("TRUCK_UNITS" :> "1") @@ ("OWNTRUCK" :> "-1"),
     "OWNTRACT" :> "2",
     "POWER_UNITS" :> "-2",
     "TRPTRACT" :> "abc"}

OtherAuthorityRows ==
    {EmptyRow, "US_MAIL" :> "Y", "FEDERAL_GOVERNMENT" :> "X",
     "STATE_GOVERNMENT" :> "N", "MIGRANT" :> "1"}

LegacyRows ==
    { (("PRIVATE_PROPERTY" :> p) @@ ("AUTHORIZED_FOR_HIRE" :> a)
         @@ ("EXEMPT_FOR_HIRE" :> e)) @@ o :
        p \in {"", "Y"}, a \in {"", " y "}, e \in {"", "X"},
        o \in OtherAuthorityRows }

CensusRows ==
    { (((s @@ c) @@ g) @@ t) @@ l :
        s \in StatusRows, c \in ClassdefRows, g \in PassengerRows,
        t \in PowerRows, l \in LegacyRows }

NoIssCall == [carrier |-> EmptyRow, basic_row |-> None, seed |-> None]
NoData == [basic_by_dot |-> EmptyRow, crashes_by_dot |-> EmptyRow,
           inspections_by_dot |-> EmptyRow, violations_by_dot |-> EmptyRow]

\* everything the classifier run leaves alone
IdleExclude == census_row = EmptyRow /\ exclusion = None
IdleLoad == census_rows = <<>>
NoScoreCall == [fn |-> "", crashes |-> <<>>, inspections |-> <<>>, violations |-> <<>>]
IdleScore == score_call = NoScoreCall /\ score_result = None
IdleIss == iss_call = NoIssCall /\ iss_result = None
IdlePipeline == /\ hashseed = 0 /\ carriers = <<>> /\ data = NoData
                /\ results = <<>> /\ prev_results = <<>> /\ run = 0

ExcludeInit ==
    /\ pc = "exclude_call"
    /\ census_row \in CensusRows
    /\ exclusion = None
    /\ IdleIss /\ IdlePipeline /\ IdleLoad /\ IdleScore

ShouldExcludeCarrier ==
    /\ pc = "exclude_call"
    /\ exclusion' = should_exclude_carrier(census_row)
    /\ pc' = "exclude_done"
    /\ UNCHANGED <<census_rows, score_call, score_result,
                   census_row, iss_call, iss_result, hashseed, carriers, data,
                   results, prev_results, run>>

ExcludeNext == ShouldExcludeCarrier

SpecExclude == ExcludeInit /\ [][ExcludeNext]_vars

(***************************************************************************)
(* C1: should_exclude_carrier returns exactly one of the six outcomes, and *)
(* precedence holds: a present non-active status always gives              *)
(* inactive_status; otherwise any passenger signal gives                   *)
(* passenger_operation; otherwise a truck/tractor power sum <= 0 gives     *)
(* no_truck_power; only a carrier passing all three gets an authority      *)
(* outcome (keep, private_not_for_hire, no_for_hire_authority).            *)
(***************************************************************************)
C1_Outcomes ==
    {<<FALSE, "">>, <<TRUE, "inactive_status">>, <<TRUE, "passenger_operation">>,
     <<TRUE, "no_truck_power">>, <<TRUE, "private_not_for_hire">>,
     <<TRUE, "no_for_hire_authority">>}

C1_AuthorityOutcomes ==
    {<<FALSE, "">>, <<TRUE, "private_not_for_hire">>,
     <<TRUE, "no_for_hire_authority">>}

C1_NonActive == Strip(Upper(Get(census_row, "STATUS_CODE"))) \notin {"", "A"}

C1_NoPower == SumFields(census_row, truck_power_fields) <= 0

C1_ExcludePrecedence ==
    pc = "exclude_done" =>
        /\ exclusion \in C1_Outcomes
        /\ C1_NonActive => exclusion = <<TRUE, "inactive_status">>
        /\ (~C1_NonActive /\ PassengerSignal(census_row))
              => exclusion = <<TRUE, "passenger_operation">>
        /\ (~C1_NonActive /\ ~PassengerSignal(census_row) /\ C1_NoPower)
              => exclusion = <<TRUE, "no_truck_power">>
        /\ exclusion \in C1_AuthorityOutcomes
              => (~C1_NonActive /\ ~PassengerSignal(census_row) /\ ~C1_NoPower)

C1_Witness ==
    /\ pc = "exclude_done"
    /\ C1_NonActive /\ PassengerSignal(census_row) /\ C1_NoPower
    /\ InText("PRIVATE PROPERTY", ClassdefUpper(census_row))
    /\ exclusion = <<TRUE, "inactive_status">>

(***************************************************************************)
(* process_all_carriers over a population.  Each carrier of the population *)
(* is one of a few profiles (a census row and its joined records); the DOT *)
(* number is given by the position in the list.                            *)
(***************************************************************************)
MaxCarriers == 3
MaxRuns == 2
MaxHashSeed == 2

\* the DOT number of the carrier at position k of the list
DotText(k) == ToString(100 + k)

Rows(n, row) == [k \in 1..n |-> row]

PlainCrash == ("FATALITIES" :> "0") @@ ("INJURIES" :> "0")
FatalCrash == ("FATALITIES" :> "1") @@ ("INJURIES" :> "2") @@ ("HAZMAT_RELEASED" :> "Y")
OosInspection == "OOS_TOTAL" :> "1"
CleanInspection == "OOS_TOTAL" :> "0"
HosViolation == "BASIC_Desc" :> "HOS Compliance"

Profile(carrier, basic, crashes, inspections, violations) ==
    [carrier |-> carrier, basic |-> basic, crashes |-> crashes,
     inspections |-> inspections, violations |-> violations]

Profiles ==
    { Profile("MCS150_MILEAGE" :> "200000",
              <<("HOS_DRIV_ALERT" :> "Y") @@ ("HOS_DRIV_MEASURE" :> "80")>>,
              <<PlainCrash>>, <<CleanInspection>>, <<HosViolation>>),
      Profile(("MCS150_MILEAGE" :> "200000") @@ ("ADD_DATE" :> "20261001")
                  @@ ("POWER_UNITS" :> "10"),
              <<>>, <<PlainCrash>>, <<>>, <<HosViolation>>),
      Profile(("MCS150_MILEAGE" :> "100000") @@ ("ADD_DATE" :> "20231104"),
              <<("VEHICLE_INSP_CT" :> "4") @@ ("CRASH_ALERT" :> "Y")>>,
              <<FatalCrash>>, <<OosInspection, CleanInspection>>,
              Rows(2, HosViolation)),
      Profile("MCS150_MILEAGE" :> "50000",
              <<"VEH_MAINT_MEASURE" :> "50">>,
              <<>>, <<>>, Rows(2, HosViolation)),
      Profile(("MCS150_MILEAGE" :> "0") @@ ("TOT_MILEAGE" :> "300000"),
              <<("UNSAFE_DRIV_ALERT" :> "Y") @@ ("UNSAFE_DRIV_MEASURE" :> "85")
                  @@ ("CRASH_MEASURE" :> "75")>>,
              <<>>, <<OosInspection>>, <<>>),
      Profile("MCS150_MILEAGE" :> "99999", <<>>, <<>>, <<>>, <<>>) }

\* the census rows and the joined records of a list of profiles
CarriersOf(ps) == [k \in 1..Len(ps) |-> ("DOT_NUMBER" :> DotText(k)) @@ ps[k].carrier]

IndexOf(ps, field) ==
    [d \in {DotText(k) : k \in {j \in 1..Len(ps) : ps[j][field] # <<>>}} |->
        ps[CHOOSE k \in 1..Len(ps) : DotText(k) = d][field]]

DataOf(ps) ==
    [basic_by_dot |-> IndexOf(ps, "basic"),
     crashes_by_dot |-> IndexOf(ps, "crashes"),
     inspections_by_dot |-> IndexOf(ps, "inspections"),
     violations_by_dot |-> IndexOf(ps, "violations")]

Populations == UNION { [1..n -> Profiles] : n \in 0..MaxCarriers }

Init ==
    /\ pc = "scoring"
    /\ \E ps \in Populations : carriers = CarriersOf(ps) /\ data = DataOf(ps)
    /\ hashseed \in 0..MaxHashSeed
    /\ results = <<>>
    /\ prev_results = <<>>
    /\ run = 1
    /\ IdleExclude /\ IdleIss /\ IdleLoad /\ IdleScore

\* one turn of the loop of process_all_carriers
ProcessCarrier ==
    /\ pc = "scoring"
    /\ Len(results) < Len(carriers)
    /\ results' = Append(results,
                         process_carrier(carriers[Len(results) + 1], data, hashseed))
    /\ UNCHANGED <<census_rows, score_call, score_result,
                   pc, census_row, exclusion, iss_call, iss_result, hashseed,
                   carriers, data, prev_results, run>>

\* the normalizer is called from inside the scoring loop, on the results so far
CalculateInsuranceRatings_in_loop ==
    /\ pc = "scoring"
    /\ Len(results) >= 1
    /\ results' = calculate_insurance_ratings(results)
    /\ pc' = IF Len(results) = Len(carriers) THEN "grades" ELSE pc
    /\ UNCHANGED <<census_rows, score_call, score_result,
                   census_row, exclusion, iss_call, iss_result, hashseed,
                   carriers, data, prev_results, run>>

CalculateInsuranceRatings ==
    /\ pc = "scoring"
    /\ Len(results) = Len(carriers)
    /\ results' = calculate_insurance_ratings(results)
    /\ pc' = "grades"
    /\ UNCHANGED <<census_rows, score_call, score_result,
                   census_row, exclusion, iss_call, iss_result, hashseed,
                   carriers, data, prev_results, run>>

\* the grades are written first, the distribution summary is printed last
AssignFredGrades ==
    /\ pc = "grades"
    /\ results' = assign_fred_grades(results)
    /\ pc' = IF assign_fred_grades_raises(results) THEN "failed" ELSE "done"
    /\ UNCHANGED <<census_rows, score_call, score_result,
                   census_row, exclusion, iss_call, iss_result, hashseed,
                   carriers, data, prev_results, run>>

\* the pipeline is run again, in a new process, on the same input
Rerun ==
    /\ pc = "done"
    /\ run < MaxRuns
    /\ prev_results' = results
    /\ results' = <<>>
    /\ hashseed' \in 0..MaxHashSeed
    /\ run' = run + 1
    /\ pc' = "scoring"
    /\ UNCHANGED <<census_rows, score_call, score_result,
                   census_row, exclusion, iss_call, iss_result, carriers, data>>

Next == ProcessCarrier \/ CalculateInsuranceRatings \/ AssignFredGrades \/ Rerun

Spec == Init /\ [][Next]_vars

(***************************************************************************)
(* process_carrier on one carrier, over the combinations of its joined     *)
(* records that move the four component scores.                            *)
(***************************************************************************)
AddDateRows ==
    { EmptyRow, "ADD_DATE" :> "2026XX01",
      "ADD_DATE" :> "20251104", "ADD_DATE" :> "20251103", "ADD_DATE" :> "20241103",
      "ADD_DATE" :> "20231104", "ADD_DATE" :> "20211103" }

\* the first a categories alerted, the others with the measure m
BasicLists ==
    { <<>> } \cup
    { << [c \in {basic_categories[k][2] : k \in 1..a} |-> "Y"]
         @@ [c \in {basic_categories[k][1] : k \in 1..7} |-> m] >> :
        a \in 0..7, m \in {"", "65", "75"} }

CrashLists ==
    { <<>> } \cup
    { <<("FATALITIES" :> f) @@ ("INJURIES" :> j) @@ ("HAZMAT_RELEASED" :> h)>>
        \o Rows(n, ("INJURIES" :> "1") @@ ("HAZMAT_RELEASED" :> h)) :
        f \in {"0", "1", "2", "-1"}, j \in {"", "7"}, h \in {"", "Y"},
        n \in {0, 2, 4} }

InspectionLists ==
    { <<>>, <<OosInspection>>,
      <<OosInspection>> \o Rows(2, CleanInspection),
      <<OosInspection>> \o Rows(4, CleanInspection),
      <<OosInspection>> \o Rows(5, CleanInspection) }

\* a mileage with the violations that go with it
MileageProfiles ==
    { <<"MCS150_MILEAGE" :> "100000", <<>> >>,
      <<"TOT_MILEAGE" :> "50000", Rows(10, HosViolation) \o <<EmptyRow>> >> }

CarrierInit ==
    /\ pc = "scoring"
    /\ \E ad \in AddDateRows, mi \in MileageProfiles, ba \in BasicLists,
          cr \in CrashLists, ins \in InspectionLists :
            LET ps == <<Profile(ad @@ mi[1], ba, cr, ins, mi[2])>>
            IN  carriers = CarriersOf(ps) /\ data = DataOf(ps)
    /\ hashseed = 0
    /\ results = <<>>
    /\ prev_results = <<>>
    /\ run = 1
    /\ IdleExclude /\ IdleIss /\ IdleLoad /\ IdleScore

CarrierNext == ProcessCarrier \/ CalculateInsuranceRatings \/ AssignFredGrades

SpecCarrier == CarrierInit /\ [][CarrierNext]_vars

(***************************************************************************)
(* C2: each of the four component scores and the combined_score of every   *)
(* result of process_carrier lies in [0,100] (0..1000 tenths).             *)
(***************************************************************************)
C2_InRange(x) == 0 <= x /\ x <= 1000

C2_ScoresInRange ==
    \A i \in 1..Len(results) :
        /\ C2_InRange(results[i].experience_score)
        /\ C2_InRange(results[i].safety_score)
        /\ C2_InRange(results[i].crash_score)
        /\ C2_InRange(results[i].inspection_score)
        /\ C2_InRange(results[i].combined_score)

\* both floors are in force: seven alerts take 105 and the crashes take 115
C2_Witness ==
    \E i \in 1..Len(results) :
        /\ results[i].safety_score = 0
        /\ results[i].crash_score = 0
        /\ results[i].experience_score = 700
        /\ results[i].inspection_score = 700

(***************************************************************************)
(* C3: the combined_score of a result is 0.15*experience + 0.35*safety +   *)
(* 0.30*crash + 0.20*inspection of the component scores stored in the same *)
(* result, rounded to one decimal.                                         *)
(***************************************************************************)
C3_Weighted(r) ==
    15 * r.experience_score + 35 * r.safety_score
        + 30 * r.crash_score + 20 * r.inspection_score

C3_CombinedReconstructs ==
    \A i \in 1..Len(results) :
        results[i].combined_score = RoundHalfEven(C3_Weighted(results[i]), 100)

\* four different components whose weighted sum has a second decimal
C3_Witness ==
    \E i \in 1..Len(results) :
        /\ C3_Weighted(results[i]) % 100 # 0
        /\ Cardinality({results[i].experience_score, results[i].safety_score,
                        results[i].crash_score, results[i].inspection_score}) = 4
        /\ results[i].combined_score * 100 # C3_Weighted(results[i])

(***************************************************************************)
(* C4: after process_all_carriers, every result with annual_mileage below  *)
(* 100000 has rank, fred_score_grade and insurance_rating null.            *)
(***************************************************************************)
C4_IneligibleStayNull ==
    pc = "done" =>
        \A i \in 1..Len(results) :
            results[i].annual_mileage < 100000 =>
                /\ results[i].rank = None
                /\ results[i].fred_score_grade = None
                /\ results[i].insurance_rating = None

C4_Witness ==
    /\ pc = "done"
    /\ \E i, j \in 1..Len(results) :
          /\ results[i].annual_mileage < 100000
          /\ results[i].annual_mileage > 0
          /\ results[i].rank = None
          /\ results[j].rank # None
          /\ results[j].insurance_rating # None

(***************************************************************************)
(* C5: after calculate_insurance_ratings every non-null insurance_rating   *)
(* lies in [1,500] (100..50000 hundredths), also when a global rate is 0.  *)
(***************************************************************************)
C5_RatingInRange ==
    \A i \in 1..Len(results) :
        results[i].insurance_rating # None =>
            /\ 100 <= results[i].insurance_rating[1]
            /\ results[i].insurance_rating[1] <= 50000

\* one carrier is clamped at 500 and another at 1
C5_Witness ==
    \E i, j \in 1..Len(results) :
        /\ results[i].insurance_rating = Some(50000)
        /\ results[j].insurance_rating = Some(100)

(***************************************************************************)
(* C6: within one run of calculate_insurance_ratings, two eligible         *)
(* carriers with the same violation_count, crash_count and annual_mileage  *)
(* get the same insurance_rating, wherever they stand in the list.         *)
(***************************************************************************)
C6_SameProfile(a, b) ==
    /\ a.has_sufficient_mileage /\ b.has_sufficient_mileage
    /\ a.violation_count = b.violation_count
    /\ a.crash_count = b.crash_count
    /\ a.annual_mileage = b.annual_mileage

C6_SameProfileSameRating ==
    pc \in {"grades", "done"} =>
        \A i, j \in 1..Len(results) :
            C6_SameProfile(results[i], results[j]) =>
                results[i].insurance_rating = results[j].insurance_rating

\* two carriers with the same profile and different scores, apart in the
\* list, next to a carrier with another profile
C6_Witness ==
    /\ pc = "grades"
    /\ Len(results) >= 3
    /\ C6_SameProfile(results[1], results[3])
    /\ results[1].combined_score # results[3].combined_score
    /\ results[1].insurance_rating # None
    /\ results[2].insurance_rating # None
    /\ results[2].insurance_rating # results[1].insurance_rating

(***************************************************************************)
(* C8: running the pipeline again on the same input with the same seeding  *)
(* configuration (no explicit seed) gives the same results for every       *)
(* carrier, the pseudorandom ISS score included.                           *)
(***************************************************************************)
C8_RerunReproduces ==
    (run >= 2 /\ pc = "done") => results = prev_results

(***************************************************************************)
(* C10: process_carrier gives every carrier an ISS result: iss_score,      *)
(* iss_bucket and iss_source are non-null, and a carrier without a BASIC   *)
(* record gets the result of the Insufficient Data Algorithm.              *)
(***************************************************************************)
C10_IssForEveryCarrier ==
    \A i \in 1..Len(results) :
        /\ results[i].iss_score # None
        /\ results[i].iss_bucket # None
        /\ results[i].iss_source # None
        /\ results[i].dot_number \notin DOMAIN data.basic_by_dot
              => results[i].iss_source = Some("INSUFFICIENT")

(***************************************************************************)
(* process_all_carriers over populations of eligible carriers whose        *)
(* combined scores are pairwise distinct: carrier number k has 5 * (k % 21)*)
(* points taken off its safety score and 5 * (k \div 21) off its crash     *)
(* score, which moves the combined score by 1.75 and 1.5 points a step.    *)
(***************************************************************************)
GradeSizes == {1, 2, 3, 4, 5, 10, 33, 34, 50, 67, 100}

\* a BASIC row that takes 5 * x points off the safety score, x in 0..20
SafetyRow(x) ==
    LET a == Min(6, x \div 3)
        b == (x - 3 * a) \div 2
        c == (x - 3 * a) % 2
    IN  [col \in {basic_categories[k][2] : k \in 1..a} |-> "Y"]
        @@ [col \in {basic_categories[k][1] : k \in (a + 1)..(a + b)} |-> "75"]
        @@ [col \in {basic_categories[k][1] : k \in (a + b + 1)..(a + b + c)} |-> "65"]

DistinctProfile(k) ==
    Profile("MCS150_MILEAGE" :> "100000",
            <<SafetyRow(k % 21)>>,
            <<("FATALITIES" :> "0") @@ ("INJURIES" :> ToString(k \div 21))>>,
            <<>>, <<>>)

\* the profiles 0..n-1 in rising or in falling order of k
DistinctPopulations ==
    { [p \in 1..n |-> DistinctProfile(p - 1)] : n \in GradeSizes }
    \cup { [p \in 1..n |-> DistinctProfile(n - p)] : n \in GradeSizes }

GradeInit ==
    /\ pc = "scoring"
    /\ \E ps \in DistinctPopulations : carriers = CarriersOf(ps) /\ data = DataOf(ps)
    /\ hashseed = 0
    /\ results = <<>>
    /\ prev_results = <<>>
    /\ run = 1
    /\ IdleExclude /\ IdleIss /\ IdleLoad /\ IdleScore

GradeNext == ProcessCarrier \/ CalculateInsuranceRatings \/ AssignFredGrades

SpecGrade == GradeInit /\ [][GradeNext]_vars

(***************************************************************************)
(* C7: with 100 eligible carriers of pairwise distinct combined_score,     *)
(* assign_fred_grades puts exactly 3 carriers in grade A+.                 *)
(***************************************************************************)
C7_HundredDistinct ==
    /\ Len(results) = 100
    /\ \A i \in 1..100 : results[i].has_sufficient_mileage
    /\ \A i, j \in 1..100 :
          i # j => results[i].combined_score # results[j].combined_score

C7_ThreeAPlus ==
    (pc = "done" /\ C7_HundredDistinct) =>
        Cardinality({i \in 1..Len(results) :
                        results[i].fred_score_grade = Some("A+")}) = 3

(***************************************************************************)
(* Direct calls of estimate_iss: rows with a valid percentile under every  *)
(* pattern of the seven alerts, rows without one under a range of          *)
(* inspection counts, and no row at all under a range of fleet sizes.      *)
(***************************************************************************)
AlertRows ==
    { [c \in {col_alert[b] : b \in on} |-> "Y"] : on \in SUBSET ALL_BASICS }

PercentileRows ==
    { ("UNSAFE_DRIV_MEASURE" :> "85") @@ ("HOS_DRIV_MEASURE" :> "85")
          @@ ("CRASH_MEASURE" :> "85"),
      ("UNSAFE_DRIV_MEASURE" :> "85") @@ ("HOS_DRIV_MEASURE" :> "84.9")
          @@ ("CRASH_MEASURE" :> "100"),
      "HOS_DRIV_MEASURE" :> "80",
      "DRIV_FIT_MEASURE" :> "0",
      ("UNSAFE_DRIV_MEASURE" :> "100.1") @@ ("VEH_MAINT_MEASURE" :> "50") }

\* the percentiles the Group 1 rule reads, each absent, just below 85 or at
\* 85, beside a valid Vehicle Maintenance percentile
HighRiskRows ==
    { ((u @@ h) @@ c) @@ ("VEH_MAINT_MEASURE" :> "50") :
        u \in {EmptyRow, "UNSAFE_DRIV_MEASURE" :> "84.9",
                "UNSAFE_DRIV_MEASURE" :> "85"},
        h \in {EmptyRow, "HOS_DRIV_MEASURE" :> "84.9",
                "HOS_DRIV_MEASURE" :> "85"},
        c \in {EmptyRow, "CRASH_MEASURE" :> "84.9", "CRASH_MEASURE" :> "85"} }

NoPercentileRows ==
    { EmptyRow, "HOS_DRIV_MEASURE" :> "150", "CRASH_MEASURE" :> "-1",
      ("HM_MEASURE" :> "abc") @@ ("HOS_DRIV_ALERT" :> "Y") }

InspCountRows ==
    { ("VEHICLE_INSP_CT" :> v) @@ ("DRIVER_INSP_CT" :> d) :
        v \in {"", "-20", "-2", "0", "1", "3", "4", "5", "9"},
        d \in {"", "-1", "0", "1", "2", "3"} }

\* counts one inspection short of the minimum
OneAwayRows ==
    { "VEHICLE_INSP_CT" :> "4", "DRIVER_INSP_CT" :> "2",
      ("VEHICLE_INSP_CT" :> "4") @@ ("DRIVER_INSP_CT" :> "2") }

FleetRows ==
    { EmptyRow, "POWER_UNITS" :> "100", "POWER_UNITS" :> "50",
      "POWER_UNITS" :> "20", "POWER_UNITS" :> "10", "POWER_UNITS" :> "9",
      "POWER_UNITS" :> "5", "POWER_UNITS" :> "2", "POWER_UNITS" :> "1",
      ("POWER_UNITS" :> "0") @@ ("TRUCK_UNITS" :> "19"),
      "TOT_PWR" :> "49", "POWER_UNITS" :> "-2",
      ("POWER_UNITS" :> "abc") @@ ("TRUCK_UNITS" :> "0") @@ ("TOT_PWR" :> "5"),
      ("POWER_UNITS" :> "10") @@ ("TRUCK_UNITS" :> "100") @@ ("TOT_PWR" :> "50"),
      ("TRUCK_UNITS" :> "2") @@ ("TOT_PWR" :> "100") }

DotRows == { "DOT_NUMBER" :> "101", "DOT_NUMBER" :> "102", EmptyRow }

\* ISSConfig.seed: not configured, or one of the seeds 0..MaxSeed
MaxSeed == 25
ConfigSeeds == { None } \cup { Some(s) : s \in 0..MaxSeed }
FewSeeds == { None, Some(0), Some(5) }

\* one pattern of alerts for each group the Safety Algorithm assigns
GroupAlerts ==
    { on \in SUBSET ALL_BASICS : Cardinality(on) <= 1 }
    \cup { ALL_BASICS, {"HOS", "DRIVER_FIT", "CSAA"}, {"HOS", "HM"},
           {"UNSAFE", "HOS"} }

GroupRows ==
    { [c \in {col_alert[b] : b \in on} |-> "Y"] @@ ("VEH_MAINT_MEASURE" :> "50") :
        on \in GroupAlerts }

IssCalls ==
    { [carrier |-> d @@ f, basic_row |-> None, seed |-> cs] :
        d \in DotRows, f \in FleetRows, cs \in ConfigSeeds }
    \cup
    { [carrier |-> d, basic_row |-> Some(a @@ pr), seed |-> cs] :
        d \in {"DOT_NUMBER" :> "101"}, a \in AlertRows,
        pr \in PercentileRows \cup HighRiskRows, cs \in FewSeeds }
    \cup
    { [carrier |-> d, basic_row |-> Some(g), seed |-> cs] :
        d \in DotRows, g \in GroupRows, cs \in ConfigSeeds }
    \cup
    { [carrier |-> d @@ f, basic_row |-> Some(np @@ ic), seed |-> cs] :
        d \in {"DOT_NUMBER" :> "101"}, f \in {EmptyRow, "POWER_UNITS" :> "20"},
        np \in NoPercentileRows, ic \in InspCountRows, cs \in FewSeeds }
    \cup
    { [carrier |-> d, basic_row |-> Some(ic), seed |-> cs] :
        d \in DotRows, ic \in OneAwayRows, cs \in ConfigSeeds }

IssInit ==
    /\ pc = "iss_call"
    /\ iss_call \in IssCalls
    /\ iss_result = None
    /\ hashseed \in 0..MaxHashSeed
    /\ IdleExclude /\ IdleLoad /\ IdleScore
    /\ carriers = <<>> /\ data = NoData /\ results = <<>>
    /\ prev_results = <<>> /\ run = 0

EstimateIss ==
    /\ pc = "iss_call"
    /\ iss_result' = Some(estimate_iss(iss_call.carrier, iss_call.basic_row,
                                        iss_call.seed, hashseed))
    /\ pc' = "iss_done"
    /\ UNCHANGED <<census_rows, score_call, score_result,
                   census_row, exclusion, iss_call, hashseed, carriers, data,
                   results, prev_results, run>>

IssNext == EstimateIss

SpecIss == IssInit /\ [][IssNext]_vars

(***************************************************************************)
(* C9: for every ISSResult of estimate_iss, from the Safety Algorithm or   *)
(* the Insufficient Data Algorithm, the bucket is fixed by the score:      *)
(* Inspect iff score >= 75, Optional iff 50 <= score < 75, Pass iff        *)
(* score < 50.                                                             *)
(***************************************************************************)
C9_BucketFromScore ==
    pc = "iss_done" =>
        LET r == iss_result[1]
        IN  /\ r.bucket = "Inspect" <=> r.iss_score >= 75
            /\ r.bucket = "Optional" <=> (50 <= r.iss_score /\ r.iss_score < 75)
            /\ r.bucket = "Pass" <=> r.iss_score < 50

(***************************************************************************)
(* What a call of estimate_iss was given, read from the texts of its BASIC *)
(* row: the BASICs whose alert text is one of the accepted marks, and the  *)
(* BASICs whose measure text is a number from 0 to 100.                    *)
(***************************************************************************)
CallHasRow == iss_call.basic_row # None
CallRow == iss_call.basic_row[1]
AlertMarks == {"Y", "YES", "TRUE", "1", "X", "y", " Y "}
CallAlerts == {b \in ALL_BASICS : Get(CallRow, col_alert[b]) \in AlertMarks}
CallPercentile(b) ==
    LET hit == {p \in FloatTable : p[1] = Get(CallRow, col_measure[b])}
    IN  IF hit = {} THEN None
        ELSE LET t == (CHOOSE p \in hit : TRUE)[2]
             IN  IF 0 <= t /\ t <= 1000 THEN Some(t) ELSE None
CallValidPercentiles == {b \in ALL_BASICS : CallPercentile(b) # None}
IssDone == pc = "iss_done"
IssOut == iss_result[1]

(***************************************************************************)
(* Direct calls of calculate_crash_score and calculate_inspection_score,   *)
(* on record lists that reach every tier and every cap.  The counts of the *)
(* records are the non-negative whole numbers of the crash and inspection  *)
(* files.                                                                  *)
(***************************************************************************)
\* cast(pl.Int32 / pl.Int64, strict=False) of a text cell: the whole number
\* it spells, or null
cast_int(value) ==
    IF IsFloatText(value) /\ FloatTenths(value) % 10 = 0
    THEN Some(Trunc(FloatTenths(value)))
    ELSE None

\* fill_null(0)
fill_null_0(cell) == IF cell = None THEN 0 ELSE cell[1]

\* the 'oos' of load_inspection_trends_polars over a group of inspections:
\* (oos_count > 0).sum(), oos_count being OOS_TOTAL cast to a whole number
inspection_trend_oos(inspections) ==
    Cardinality({k \in 1..Len(inspections) :
                    fill_null_0(cast_int(Get(inspections[k], "OOS_TOTAL"))) > 0})

CrashRecords ==
    { ("FATALITIES" :> f) @@ ("INJURIES" :> j) @@ ("HAZMAT_RELEASED" :> h) :
        f \in {"0", "1", "3"}, j \in {"", "2", "7"}, h \in {"", "Y", "N"} }

HazmatCrash == ("FATALITIES" :> "0") @@ ("HAZMAT_RELEASED" :> "Y")

CrashCalls ==
    { <<>> } \cup { <<r>> : r \in CrashRecords }
    \cup { <<r1, r2>> \o Rows(n, filler) :
            r1 \in CrashRecords, r2 \in CrashRecords, n \in 0..4,
            filler \in {PlainCrash, HazmatCrash} }

MaxInspections == 10

\* a inspections with OOS_TOTAL 1, b with a larger count, the rest with none
InspectionCalls ==
    UNION { UNION { { (Rows(a, OosInspection) \o Rows(b, "OOS_TOTAL" :> many))
                        \o Rows(n - a - b, clean) :
                      b \in 0..(n - a), many \in {"2", "3"},
                      clean \in {CleanInspection, EmptyRow} } :
                    a \in 0..n } :
            n \in 0..MaxInspections }

ViolationCalls ==
    { <<>>, Rows(9, HosViolation), Rows(10, HosViolation),
      (Rows(10, HosViolation) \o <<EmptyRow>>)
        \o Rows(11, "BASIC_Desc" :> "Unsafe Driving") }

ScoreCalls ==
    { [fn |-> "crash", crashes |-> c, inspections |-> <<>>, violations |-> <<>>] :
        c \in CrashCalls }
    \cup { [fn |-> "inspection", crashes |-> <<>>, inspections |-> i,
            violations |-> v] : i \in InspectionCalls, v \in ViolationCalls }

ScoreInit ==
    /\ pc = "score_call"
    /\ score_call \in ScoreCalls
    /\ score_result = None
    /\ IdleExclude /\ IdleIss /\ IdlePipeline /\ IdleLoad

CalculateCrashScore ==
    /\ pc = "score_call"
    /\ score_call.fn = "crash"
    /\ score_result' = calculate_crash_score(EmptyRow, score_call.crashes)
    /\ pc' = "score_done"
    /\ UNCHANGED <<census_row, exclusion, iss_call, iss_result, hashseed, carriers,
                   data, results, prev_results, run, census_rows, score_call>>

CalculateInspectionScore ==
    /\ pc = "score_call"
    /\ score_call.fn = "inspection"
    /\ score_result' = calculate_inspection_score(EmptyRow, score_call.inspections,
                                                   score_call.violations)
    /\ pc' = "score_done"
    /\ UNCHANGED <<census_row, exclusion, iss_call, iss_result, hashseed, carriers,
                   data, results, prev_results, run, census_rows, score_call>>

ScoreNext == CalculateCrashScore \/ CalculateInspectionScore

SpecScores == ScoreInit /\ [][ScoreNext]_vars

(***************************************************************************)
(* The Polars path of load_all_data.  A census frame is read row by row:   *)
(* the fields of census_row are the columns of the frame, and an empty     *)
(* cell ('' in the file) is null.  A comparison with null is null, and     *)
(* filter keeps only the rows whose predicate is true.                     *)
(***************************************************************************)
HAS_POLARS == TRUE

is_null(row, col) == IF col = "CLASSDEF" THEN row[col] = <<"">> ELSE row[col] = ""

\* sum of pl.col(c).cast(pl.Int64, strict=False).fill_null(0) over the
\* columns of the list that the frame has
SumAvailable(row, cols) ==
    SumSeq([i \in 1..Len(cols) |->
               IF cols[i] \in DOMAIN row THEN fill_null_0(cast_int(row[cols[i]]))
               ELSE 0])

\* str.to_uppercase().str.contains(text) on the CLASSDEF cell, for the five
\* texts the filter looks for
classdef_contains(row, text) ==
    LET parts == ClassdefUpper(row)
    IN  CASE text = "FOR HIRE" -> \/ InText("AUTHORIZED FOR HIRE", parts)
                                  \/ InText("EXEMPT FOR HIRE", parts)
          [] OTHER -> InText(text, parts)

prefilter_auth_cols ==
    <<"AUTHORIZED_FOR_HIRE", "EXEMPT_FOR_HIRE", "US_MAIL", "FEDERAL_GOVERNMENT",
      "STATE_GOVERNMENT", "LOCAL_GOVERNMENT", "INDIAN_TRIBE", "MIGRANT">>

\* whether the row is still in the frame prefilter_census_polars returns
prefilter_census_polars(row) ==
    LET cols == DOMAIN row
        avail(list) == \E i \in 1..Len(list) : list[i] \in cols
        status_ok ==
            "STATUS_CODE" \in cols =>
                \/ is_null(row, "STATUS_CODE")
                \/ Upper(Strip(row["STATUS_CODE"])) = "A"
                \/ Strip(row["STATUS_CODE"]) = ""
        truck_ok ==
            avail(truck_power_fields) => SumAvailable(row, truck_power_fields) > 0
        passenger_ok ==
            avail(passenger_equipment_fields) =>
                SumAvailable(row, passenger_equipment_fields) = 0
        private_passenger_ok ==
            "CLASSDEF" \in cols =>
                /\ ~is_null(row, "CLASSDEF")
                /\ ~classdef_contains(row, "PRIVATE PASSENGER")
        classdef_ok ==
            "CLASSDEF" \in cols =>
                \/ /\ ~is_null(row, "CLASSDEF")
                   /\ \/ classdef_contains(row, "FOR HIRE")
                      \/ classdef_contains(row, "U.S. MAIL")
                      \/ classdef_contains(row, "US MAIL")
                      \/ classdef_contains(row, "U. S. MAIL")
                \/ \E i \in 1..Len(prefilter_auth_cols) :
                      /\ prefilter_auth_cols[i] \in cols
                      /\ Upper(row[prefilter_auth_cols[i]])
                            \in {"Y", "YES", "TRUE", "1", "X"}
    IN  status_ok /\ truck_ok /\ passenger_ok /\ private_passenger_ok /\ classdef_ok

\* the columns of the census frame
CensusColumns ==
    {"STATUS_CODE", "CLASSDEF", "CRGO_PASSENGERS", "PRIVATE_PASSENGER_BUSINESS",
     "PRIVATE_PASSENGER_NONBUSINESS", "PRIVATE_PROPERTY"}
    \cup {truck_power_fields[i] : i \in 1..Len(truck_power_fields)}
    \cup {passenger_equipment_fields[i] : i \in 1..Len(passenger_equipment_fields)}
    \cup {prefilter_auth_cols[i] : i \in 1..Len(prefilter_auth_cols)}

NullRow == [c \in CensusColumns |-> IF c = "CLASSDEF" THEN <<"">> ELSE ""]

\* every row of the frame has every column; a field the row lacks is null
LoadRows == { r @@ NullRow : r \in CensusRows }

LoadInit ==
    /\ pc = "load_call"
    /\ census_row \in LoadRows
    /\ exclusion = None
    /\ census_rows = <<>>
    /\ IdleIss /\ IdlePipeline /\ IdleScore

\* load_all_data with Polars: the rows of the prefiltered frame are the
\* census rows; should_exclude_carrier is not called
LoadCensusPolars ==
    /\ pc = "load_call"
    /\ HAS_POLARS
    /\ census_rows' = IF prefilter_census_polars(census_row)
                      THEN <<census_row>> ELSE <<>>
    /\ pc' = "load_done"
    /\ UNCHANGED <<census_row, exclusion, iss_call, iss_result, hashseed, carriers,
                   data, results, prev_results, run, score_call, score_result>>

LoadNext == LoadCensusPolars

SpecLoad == LoadInit /\ [][LoadNext]_vars

(***************************************************************************)
(* C11: a BASIC row with the HOS alert set, no other alert set and at      *)
(* least one valid percentile gives group 5, a score from 80 to 86 under   *)
(* every seed, bucket Inspect and source Safety.                           *)
(***************************************************************************)
C11_HosOnlyGroup5 ==
    (IssDone /\ CallHasRow /\ CallAlerts = {"HOS"} /\ CallValidPercentiles # {})
        => /\ IssOut.group = Some(5)
           /\ IssOut.iss_score \in 80..86
           /\ IssOut.bucket = "Inspect"
           /\ IssOut.source = "SAFETY"

C11_Witness ==
    /\ IssDone /\ CallHasRow /\ CallAlerts = {"HOS"}
    /\ CallValidPercentiles = {"HOS"}
    /\ Get(CallRow, "HOS_DRIV_MEASURE") = "80"
    /\ IssOut.group = Some(5) /\ IssOut.iss_score = 86

(***************************************************************************)
(* The whole number a count field of a row holds (0 when the field is      *)
(* missing or is not a number), and the fleet-size tiers of case D4.       *)
(***************************************************************************)
CountOf(row, key) ==
    LET hit == {p \in FloatTable : p[1] = Get(row, key)}
    IN  IF hit = {} THEN 0
        ELSE LET t == (CHOOSE p \in hit : TRUE)[2]
             IN  IF t >= 0 THEN t \div 10 ELSE -((-t) \div 10)
FleetTiers == {2, 5, 10, 20, 50, 100}
TierScore(fleet) == 63 + Cardinality({t \in FleetTiers : fleet >= t})
FirstNonZero(counts, last) ==
    LET nz == {i \in 1..Len(counts) : counts[i] # 0}
    IN  IF nz = {} THEN last
        ELSE counts[CHOOSE i \in nz : \A j \in nz : i <= j]

(***************************************************************************)
(* C12 as stated: with no BASIC row estimate_iss returns source            *)
(* Insufficient, case D4 and bucket Optional, and the score is the tier of *)
(* the fleet size alone, the fleet size being POWER_UNITS, falling back to *)
(* TRUCK_UNITS and then to 1.                                              *)
(***************************************************************************)
C12_FleetTierTwoFallbacks ==
    (IssDone /\ ~CallHasRow)
        => /\ IssOut.source = "INSUFFICIENT"
           /\ IssOut.case = Some("D4")
           /\ IssOut.group = None
           /\ IssOut.bucket = "Optional"
           /\ IssOut.iss_score =
                TierScore(FirstNonZero(
                    <<CountOf(iss_call.carrier, "POWER_UNITS"),
                      CountOf(iss_call.carrier, "TRUCK_UNITS")>>, 1))

(***************************************************************************)
(* C12 amended: the same, the fleet size being POWER_UNITS, falling back   *)
(* to TRUCK_UNITS, then to TOT_PWR, and to 1 only when TOT_PWR is missing  *)
(* too (a TOT_PWR of 0 is taken as it is).                                 *)
(***************************************************************************)
C12_FleetTierThreeFallbacks ==
    (IssDone /\ ~CallHasRow)
        => /\ IssOut.source = "INSUFFICIENT"
           /\ IssOut.case = Some("D4")
           /\ IssOut.group = None
           /\ IssOut.bucket = "Optional"
           /\ IssOut.iss_score =
                TierScore(FirstNonZero(
                    <<CountOf(iss_call.carrier, "POWER_UNITS"),
                      CountOf(iss_call.carrier, "TRUCK_UNITS")>>,
                    IF Get(iss_call.carrier, "TOT_PWR") \in {p[1] : p \in FloatTable}
                    THEN CountOf(iss_call.carrier, "TOT_PWR") ELSE 1))

C12_Witness ==
    /\ IssDone /\ ~CallHasRow
    /\ Get(iss_call.carrier, "POWER_UNITS") = "abc"
    /\ Get(iss_call.carrier, "TRUCK_UNITS") = "0"
    /\ Get(iss_call.carrier, "TOT_PWR") = "5"
    /\ iss_call.seed = Some(7)
    /\ IssOut.case = Some("D4") /\ IssOut.iss_score = 65

(***************************************************************************)
(* C13: every ISSResult of estimate_iss is well formed: the score is in    *)
(* 1..100; a Safety result has a group among 1-5 and 7-13 (never 6) and no *)
(* case; an Insufficient result has a case among D2-D5 and no group.       *)
(***************************************************************************)
C13_WellFormed ==
    IssDone =>
        /\ IssOut.iss_score \in 1..100
        /\ IssOut.source \in {"SAFETY", "INSUFFICIENT"}
        /\ IssOut.source = "SAFETY" =>
              /\ IssOut.group \in {Some(g) : g \in (1..13) \ {6}}
              /\ IssOut.case = None
        /\ IssOut.source = "INSUFFICIENT" =>
              /\ IssOut.case \in {Some("D2"), Some("D3"), Some("D4"), Some("D5")}
              /\ IssOut.group = None

(***************************************************************************)
(* C14: with no eligible carrier in the population (the empty list         *)
(* included) calculate_insurance_ratings and assign_fred_grades run to the *)
(* end without raising, and rank, fred_score_grade and insurance_rating    *)
(* are null on every result.                                               *)
(***************************************************************************)
NoEligible == \A i \in 1..Len(results) : ~results[i].has_sufficient_mileage

C14_EmptyPopulationNoOp ==
    (pc \in {"grades", "done", "failed"} /\ NoEligible)
        => /\ pc # "failed"
           /\ \A i \in 1..Len(results) :
                /\ results[i].rank = None
                /\ results[i].fred_score_grade = None
                /\ results[i].insurance_rating = None

C14_Witness ==
    /\ pc = "done" /\ NoEligible /\ Len(results) = 2
    /\ results[1].annual_mileage = 99999
    /\ results[2].annual_mileage = 50000
    /\ \A i \in 1..2 : results[i].insurance_rating = None /\ results[i].rank = None

C14_WitnessEmpty == pc = "done" /\ results = <<>> /\ carriers = <<>>

(***************************************************************************)
(* C15: estimate_iss gives group 13 only to a carrier with BASIC data and  *)
(* no alert at all; a carrier with one or more alerts never lands in       *)
(* group 13.                                                               *)
(***************************************************************************)
C15_Group13OnlyWithoutAlerts ==
    (IssDone /\ CallHasRow /\ IssOut.group = Some(13)) => CallAlerts = {}

(***************************************************************************)
(* The group rules in their stated order, over the alerts and percentiles  *)
(* of the call: each entry is a condition and the group it gives.          *)
(***************************************************************************)
CallHighRisk ==
    {b \in {"UNSAFE", "HOS", "CRASH"} \cap CallAlerts :
        CallPercentile(b) # None /\ CallPercentile(b)[1] >= 850}
CallRoadside == CallAlerts \cap ROADSIDE_BASICS
GroupRules ==
    << <<Cardinality(CallAlerts) >= 4
            \/ (Cardinality(CallAlerts) >= 2 /\ Cardinality(CallHighRisk) >= 2), 1>>,
       <<Cardinality(CallRoadside) >= 3, 2>>,
       <<Cardinality(CallRoadside) = 2, 3>>,
       <<Cardinality(CallAlerts) >= 2 /\ Cardinality(CallRoadside) = 1, 4>>,
       <<CallAlerts = {"HOS"}, 5>>,
       <<CallAlerts = {"UNSAFE"}, 7>>,
       <<CallAlerts = {"CRASH"}, 8>>,
       <<CallAlerts = {"VEH_MAINT"}, 9>>,
       <<CallAlerts = {"DRIVER_FIT"}, 10>>,
       <<CallAlerts = {"CSAA"}, 11>>,
       <<CallAlerts = {"HM"}, 12>>,
       <<CallAlerts = {}, 13>> >>
MatchingRules == {k \in 1..Len(GroupRules) : GroupRules[k][1]}
FirstMatchingRule == CHOOSE k \in MatchingRules : \A j \in MatchingRules : k <= j

(***************************************************************************)
(* C16: for every pattern of the seven alerts and percentiles with at      *)
(* least one valid percentile, the group is the outcome of the first rule  *)
(* that matches, in the order 1, 2, 3, 4, the single-alert groups 5 and    *)
(* 7-12, and 13 for no alerts.                                             *)
(***************************************************************************)
C16_FirstMatchingRule ==
    (IssDone /\ CallHasRow /\ CallValidPercentiles # {})
        => /\ MatchingRules # {}
           /\ IssOut.group = Some(GroupRules[FirstMatchingRule][2])

\* the order itself is kept: wherever some rule matches, the first one decides
C16_WhereSomeRuleMatches ==
    (IssDone /\ CallHasRow /\ CallValidPercentiles # {} /\ MatchingRules # {})
        => IssOut.group = Some(GroupRules[FirstMatchingRule][2])

(***************************************************************************)
(* C17: under every seed the Safety Algorithm score stays in the band of   *)
(* its group: groups 1-5 give base 99-(group-1)*4 plus a jitter in -3..3   *)
(* clamped to 75..99, groups 7-12 give base 74-(group-7)*4 plus a jitter   *)
(* in -3..3 clamped to 50..74, group 13 gives 25..49; so groups 1-5 get    *)
(* bucket Inspect, groups 7-12 Optional and group 13 Pass.                 *)
(***************************************************************************)
Jitter == -3..3
Clamp(lo, hi, x) == IF x < lo THEN lo ELSE IF x > hi THEN hi ELSE x

C17_ScoreInGroupBand ==
    (IssDone /\ IssOut.source = "SAFETY") =>
        LET g == IssOut.group[1]
            score == IssOut.iss_score
        IN  /\ g \in 1..5 =>
                /\ score \in 75..99
                /\ \E j \in Jitter : score = Clamp(75, 99, 99 - (g - 1) * 4 + j)
                /\ IssOut.bucket = "Inspect"
            /\ g \in 7..12 =>
                /\ score \in 50..74
                /\ \E j \in Jitter : score = Clamp(50, 74, 74 - (g - 7) * 4 + j)
                /\ IssOut.bucket = "Optional"
            /\ g = 13 => (score \in 25..49 /\ IssOut.bucket = "Pass")

\* group 1 under a seed whose jitter is positive: the clamp holds it at 99
C17_Witness ==
    /\ IssDone /\ IssOut.source = "SAFETY"
    /\ iss_call.seed = Some(6)
    /\ IssOut.group = Some(1) /\ IssOut.iss_score = 99
    /\ IssOut.bucket = "Inspect"

(***************************************************************************)
(* C18: estimate_iss uses the Insufficient Data Algorithm (source          *)
(* Insufficient, no group) exactly when there is no BASIC row or none of   *)
(* the seven percentiles is a number from 0 to 100; a row with alerts but  *)
(* no valid percentile goes to the Insufficient Data Algorithm, a row with *)
(* a valid percentile always gets source Safety.                           *)
(***************************************************************************)
C18_InsufficientIffNoPercentile ==
    IssDone =>
        LET no_data == ~CallHasRow \/ CallValidPercentiles = {}
        IN  /\ no_data <=> (IssOut.source = "INSUFFICIENT" /\ IssOut.group = None)
            /\ ~no_data <=> IssOut.source = "SAFETY"

\* the HOS alert is set, the only measure is not a number
C18_Witness ==
    /\ IssDone /\ CallHasRow
    /\ CallAlerts = {"HOS"} /\ Get(CallRow, "HM_MEASURE") = "abc"
    /\ CallValidPercentiles = {}
    /\ IssOut.source = "INSUFFICIENT" /\ IssOut.group = None

(***************************************************************************)
(* The inspection counts and the fleet size a call hands to the            *)
(* Insufficient Data Algorithm (an empty row when there is no BASIC row).  *)
(***************************************************************************)
CallCounts == IF CallHasRow THEN CallRow ELSE EmptyRow
CallVehicle == CountOf(CallCounts, "VEHICLE_INSP_CT")
CallDriver == CountOf(CallCounts, "DRIVER_INSP_CT")
CallFleetSize ==
    FirstNonZero(<<CountOf(iss_call.carrier, "POWER_UNITS"),
                   CountOf(iss_call.carrier, "TRUCK_UNITS")>>,
                 IF Get(iss_call.carrier, "TOT_PWR") \in {p[1] : p \in FloatTable}
                 THEN CountOf(iss_call.carrier, "TOT_PWR") ELSE 1)

(***************************************************************************)
(* C19: the Insufficient Data Algorithm takes the first of D2, D3, D4, D5  *)
(* that matches, for all vehicle and driver inspection counts: D2 (vehicle *)
(* >= 5 or driver >= 3) scores 50; else D3 (vehicle = 4 or driver = 2)     *)
(* scores in 55..62; else D4 (both 0) scores the fleet-size tier, in       *)
(* 63..69; else D5 scores 50 + min(19, 3 * (vehicle + driver)); every case *)
(* reports bucket Optional.                                                *)
(***************************************************************************)
C19_CaseOrder ==
    (IssDone /\ IssOut.source = "INSUFFICIENT") =>
        LET v == CallVehicle
            d == CallDriver
            score == IssOut.iss_score
        IN  /\ IssOut.bucket = "Optional"
            /\ IF v >= 5 \/ d >= 3
               THEN IssOut.case = Some("D2") /\ score = 50
               ELSE IF v = 4 \/ d = 2
               THEN IssOut.case = Some("D3") /\ score \in 55..62
               ELSE IF v = 0 /\ d = 0
               THEN /\ IssOut.case = Some("D4")
                    /\ score \in 63..69
                    /\ score = TierScore(CallFleetSize)
               ELSE /\ IssOut.case = Some("D5")
                    /\ score = 50 + (IF 3 * (v + d) < 19 THEN 3 * (v + d) ELSE 19)

\* both D2 and D3 match: 4 vehicle and 3 driver inspections
C19_Witness ==
    /\ IssDone /\ IssOut.source = "INSUFFICIENT"
    /\ CallVehicle = 4 /\ CallDriver = 3
    /\ IssOut.case = Some("D2") /\ IssOut.iss_score = 50

(***************************************************************************)
(* C20: when a seed is configured (any value, 0 included) the generator is *)
(* seeded with it and not from dot_number: the score of the call is the    *)
(* score the same BASIC row gets under that seed for every other           *)
(* dot_number, in every process.                                           *)
(***************************************************************************)
C20_ConfiguredSeedUsed ==
    (IssDone /\ iss_call.seed # None) =>
        \A d \in DotRows, salt \in 0..MaxHashSeed :
            estimate_iss(d @@ iss_call.carrier, iss_call.basic_row,
                         iss_call.seed, salt).iss_score = IssOut.iss_score

\* the same with seed 0 left out: every other configured seed is used
C20_NonZeroSeedUsed ==
    (IssDone /\ iss_call.seed # None /\ iss_call.seed # Some(0)) =>
        \A d \in DotRows, salt \in 0..MaxHashSeed :
            estimate_iss(d @@ iss_call.carrier, iss_call.basic_row,
                         iss_call.seed, salt).iss_score = IssOut.iss_score

(***************************************************************************)
(* C21.  process_all_carriers has a hard barrier between its two phases:   *)
(* no insurance_rating, rank or fred_score_grade is written while some     *)
(* carrier is still unscored, and every rating written was computed from   *)
(* totals reduced over all the eligible carriers of the whole population.  *)
(***************************************************************************)
C21_Total(field) ==
    SumSeq([k \in 1..Len(results) |->
                IF results[k].has_sufficient_mileage THEN results[k][field] ELSE 0])

C21_HardBarrier ==
    /\ (\E i \in 1..Len(results) :
            \/ results[i].insurance_rating # None
            \/ results[i].rank # None
            \/ results[i].fred_score_grade # None)
       => Len(results) = Len(carriers)
    /\ \A i \in 1..Len(results) :
            results[i].insurance_rating # None =>
                results[i].insurance_rating =
                    Some(carrier_rating(results[i],
                            GlobalRate(C21_Total("violation_count"),
                                       C21_Total("annual_mileage")),
                            GlobalRate(C21_Total("crash_count"),
                                       C21_Total("annual_mileage"))))

C21_Witness ==
    /\ pc = "done"
    /\ Len(results) = MaxCarriers
    /\ \E i, j \in 1..Len(results) :
            /\ i < j
            /\ results[i].insurance_rating # None
            /\ results[j].insurance_rating # None
            /\ results[i].insurance_rating # results[j].insurance_rating
            /\ results[j].rank # None
    /\ \E k \in 1..Len(results) : ~results[k].has_sufficient_mileage

(***************************************************************************)
(* C22.  After assign_fred_grades over a population with n eligible        *)
(* carriers, the ranks of the eligible carriers are exactly 1..n, each     *)
(* used once, and a better (smaller) rank never goes with a smaller        *)
(* combined_score.                                                         *)
(***************************************************************************)
C22_Eligible == {i \in 1..Len(results) : results[i].annual_mileage >= 100000}

C22_RanksArePermutation ==
    pc = "done" =>
        LET n == Cardinality(C22_Eligible)
        IN  /\ \A i \in C22_Eligible : results[i].rank # None
            /\ {results[i].rank[1] : i \in C22_Eligible} = 1..n
            /\ \A a, b \in C22_Eligible :
                    /\ a # b => results[a].rank # results[b].rank
                    /\ results[a].rank[1] < results[b].rank[1] =>
                            results[a].combined_score >= results[b].combined_score

C22_Witness ==
    /\ pc = "done"
    /\ Cardinality(C22_Eligible) = MaxCarriers
    /\ \E a, b, c \in C22_Eligible :
            /\ results[a].rank = Some(1)
            /\ results[b].rank = Some(2)
            /\ results[c].rank = Some(3)
            /\ results[a].combined_score = results[b].combined_score
            /\ results[b].combined_score > results[c].combined_score

(***************************************************************************)
(* C23.  For n eligible carriers and the carrier at 0-based position i of  *)
(* the descending order (rank i + 1), assign_fred_grades gives the first   *)
(* grade of the ceiling table 0.03 A+ ... 1.00 F whose ceiling is at least *)
(* i / n; grades never improve as the rank worsens, and rank 1 is A+.      *)
(***************************************************************************)
C23_Table ==
    << <<3, "A+">>, <<10, "A">>, <<20, "A-">>, <<30, "B+">>, <<45, "B">>,
       <<55, "B-">>, <<65, "C+">>, <<75, "C">>, <<85, "C-">>, <<90, "D+">>,
       <<96, "D">>, <<98, "D-">>, <<100, "F">> >>

\* the place in the table of the first ceiling that is at least i / n
C23_First(i, n) ==
    CHOOSE k \in 1..Len(C23_Table) :
        /\ C23_Table[k][1] * n >= 100 * i
        /\ \A j \in 1..(k - 1) : C23_Table[j][1] * n < 100 * i

C23_Place(grade) == CHOOSE k \in 1..Len(C23_Table) : Some(C23_Table[k][2]) = grade

C23_Ranked == {i \in 1..Len(results) : results[i].rank # None}

C23_GradeFromCeilingTable ==
    pc = "done" =>
        LET n == Cardinality(C23_Ranked)
        IN  /\ \A a \in C23_Ranked :
                /\ results[a].fred_score_grade =
                        Some(C23_Table[C23_First(results[a].rank[1] - 1, n)][2])
                /\ results[a].rank = Some(1) => results[a].fred_score_grade = Some("A+")
            /\ \A a, b \in C23_Ranked :
                    results[a].rank[1] < results[b].rank[1] =>
                        C23_Place(results[a].fred_score_grade)
                            <= C23_Place(results[b].fred_score_grade)

C23_Witness ==
    /\ pc = "done"
    /\ Cardinality(C23_Ranked) = 100
    /\ \E a, b, c \in C23_Ranked :
            /\ results[a].rank = Some(4) /\ results[a].fred_score_grade = Some("A+")
            /\ results[b].rank = Some(5) /\ results[b].fred_score_grade = Some("A")
            /\ results[c].rank = Some(100) /\ results[c].fred_score_grade = Some("F")

(***************************************************************************)
(* C24.  In the authority step of should_exclude_carrier the CLASSDEF text *)
(* decides first: authorized or exempt for hire keeps the carrier, also    *)
(* beside private property; otherwise U.S. mail keeps it; otherwise        *)
(* private property excludes it as private_not_for_hire whatever the flags *)
(* say.  Only with none of these texts the legacy flags decide, in order:  *)
(* private-property flag without a for-hire flag excludes as               *)
(* private_not_for_hire, a for-hire flag keeps, another recognised         *)
(* authority flag keeps, and everything else is no_for_hire_authority.     *)
(***************************************************************************)
C24_Text(marker) ==
    \E i \in 1..Len(ClassdefParts(census_row)) :
        marker \in MarkersIn(Upper(ClassdefParts(census_row)[i]))

C24_Flag(field) ==
    Strip(Upper(Get(census_row, field))) \in {"Y", "YES", "TRUE", "1", "X"}

C24_ForHireText == C24_Text("AUTHORIZED FOR HIRE") \/ C24_Text("EXEMPT FOR HIRE")
C24_MailText == C24_Text("U.S. MAIL") \/ C24_Text("US MAIL") \/ C24_Text("U. S. MAIL")
C24_NoText == ~C24_ForHireText /\ ~C24_MailText /\ ~C24_Text("PRIVATE PROPERTY")
C24_ForHireFlag == C24_Flag("AUTHORIZED_FOR_HIRE") \/ C24_Flag("EXEMPT_FOR_HIRE")
C24_OtherFlag ==
    \E f \in {"US_MAIL", "FEDERAL_GOVERNMENT", "STATE_GOVERNMENT",
              "LOCAL_GOVERNMENT", "INDIAN_TRIBE", "MIGRANT"} : C24_Flag(f)

\* the call got past the status, passenger and truck-power rules
C24_AtAuthorityStep ==
    /\ pc = "exclude_done"
    /\ exclusion[2] \notin {"inactive_status", "passenger_operation", "no_truck_power"}

C24_TextBeforeFlags ==
    C24_AtAuthorityStep =>
        /\ C24_ForHireText => exclusion = <<FALSE, "">>
        /\ (~C24_ForHireText /\ C24_MailText) => exclusion = <<FALSE, "">>
        /\ (~C24_ForHireText /\ ~C24_MailText /\ C24_Text("PRIVATE PROPERTY"))
                => exclusion = <<TRUE, "private_not_for_hire">>
        /\ (C24_NoText /\ C24_Flag("PRIVATE_PROPERTY") /\ ~C24_ForHireFlag)
                => exclusion = <<TRUE, "private_not_for_hire">>
        /\ (C24_NoText /\ C24_ForHireFlag) => exclusion = <<FALSE, "">>
        /\ (C24_NoText /\ ~C24_Flag("PRIVATE_PROPERTY") /\ ~C24_ForHireFlag
                /\ C24_OtherFlag) => exclusion = <<FALSE, "">>
        /\ (C24_NoText /\ ~C24_Flag("PRIVATE_PROPERTY") /\ ~C24_ForHireFlag
                /\ ~C24_OtherFlag) => exclusion = <<TRUE, "no_for_hire_authority">>

C24_Witness ==
    /\ C24_AtAuthorityStep
    /\ C24_Text("PRIVATE PROPERTY")
    /\ ~C24_ForHireText /\ ~C24_MailText
    /\ C24_ForHireFlag /\ C24_OtherFlag
    /\ exclusion = <<TRUE, "private_not_for_hire">>

C24_WitnessFlags ==
    /\ C24_AtAuthorityStep
    /\ C24_NoText
    /\ C24_Flag("PRIVATE_PROPERTY") /\ C24_ForHireFlag
    /\ exclusion = <<FALSE, "">>

(***************************************************************************)
(* C26.  calculate_crash_score takes min(50, 25 * fatalities) +            *)
(* min(30, 5 * injuries) + min(20, 10 * hazmat_releases) off 100, with one *)
(* flag for each of the three totals that is above 0, then the frequency   *)
(* tier: 5 or more crashes cost 15 and flag, 3 or 4 cost 10 and flag, 1 or *)
(* 2 only flag; the score is floored at 0, and a carrier without crashes   *)
(* scores 100 with no flags.                                               *)
(***************************************************************************)
C26_Sum(field) ==
    SumSeq([k \in 1..Len(score_call.crashes) |->
               safe_int(Get(score_call.crashes[k], field), 0)])

C26_Releases ==
    Cardinality({k \in 1..Len(score_call.crashes) :
                    Get(score_call.crashes[k], "HAZMAT_RELEASED") = "Y"})

C26_FlagTexts == {score_result[2][k].flag : k \in 1..Len(score_result[2])}

C26_CrashDone == pc = "score_done" /\ score_call.fn = "crash"

C26_CrashScore ==
    C26_CrashDone =>
        LET n == Len(score_call.crashes)
            fatalities == C26_Sum("FATALITIES")
            injuries == C26_Sum("INJURIES")
            tier == IF n >= 5 THEN 15 ELSE IF n >= 3 THEN 10 ELSE 0
            raw == 100 - Min(50, 25 * fatalities) - Min(30, 5 * injuries)
                       - Min(20, 10 * C26_Releases) - tier
        IN  IF n = 0 THEN score_result = <<100, <<>> >>
            ELSE /\ score_result[1] = IF raw < 0 THEN 0 ELSE raw
                 /\ ("FATAL crashes" \in C26_FlagTexts) <=> fatalities > 0
                 /\ ("Multiple injury crashes" \in C26_FlagTexts) <=> injuries > 0
                 /\ ("Hazmat releases" \in C26_FlagTexts) <=> C26_Releases > 0
                 /\ "High crash frequency" \in C26_FlagTexts
                 /\ Len(score_result[2]) = Cardinality(C26_FlagTexts)

\* every cap is passed and the floor is reached
C26_Witness ==
    /\ C26_CrashDone
    /\ Len(score_call.crashes) >= 5
    /\ 25 * C26_Sum("FATALITIES") > 50
    /\ 5 * C26_Sum("INJURIES") > 30
    /\ 10 * C26_Releases > 20
    /\ score_result[1] = 0
    /\ Len(score_result[2]) = 4

C26_WitnessFlagOnly ==
    /\ C26_CrashDone
    /\ Len(score_call.crashes) = 2
    /\ score_result = <<100, <<Flag("High crash frequency", "", 2)>> >>

(***************************************************************************)
(* C25.  calculate_inspection_score applies three out-of-service tiers to  *)
(* rate = oos / total * 100 over the carrier's inspections: a rate of 50   *)
(* or more costs 30 and flags, 30 up to 50 costs 20 and flags, 20 up to 30 *)
(* costs 10 without a flag, below 20 costs nothing.  A pattern flag is     *)
(* given for each violation category with 10 or more violations and never  *)
(* changes the score; a carrier without inspections scores 100 with no     *)
(* flags.  oos is the numerator the function counts, the inspections whose *)
(* OOS_TOTAL is a true mark; which inspections those should be is C29.     *)
(***************************************************************************)
C25_InspectionDone == pc = "score_done" /\ score_call.fn = "inspection"

C25_Total == Len(score_call.inspections)

C25_Oos ==
    Cardinality({k \in 1..C25_Total :
                    Get(score_call.inspections[k], "OOS_TOTAL")
                        \in {"Y", "YES", "TRUE", "1", "X"}})

C25_Flags(text) ==
    {k \in 1..Len(score_result[2]) : score_result[2][k].flag = text}

C25_Categories ==
    {b \in {"HOS Compliance", "Unsafe Driving", "Unknown"} :
        Cardinality({k \in 1..Len(score_call.violations) :
            GetDefault(score_call.violations[k], "BASIC_Desc", "Unknown") = b}) >= 10}

C25_AtLeast(t) == 100 * C25_Oos >= t * C25_Total

C25_OosTiers ==
    C25_InspectionDone =>
        IF C25_Total = 0 THEN score_result = <<100, <<>> >>
        ELSE /\ score_result[1] = IF C25_AtLeast(50) THEN 70
                                  ELSE IF C25_AtLeast(30) THEN 80
                                  ELSE IF C25_AtLeast(20) THEN 90 ELSE 100
             /\ Cardinality(C25_Flags("High OOS rate"))
                    = IF C25_AtLeast(50) THEN 1 ELSE 0
             /\ Cardinality(C25_Flags("Elevated OOS rate"))
                    = IF C25_AtLeast(30) /\ ~C25_AtLeast(50) THEN 1 ELSE 0
             /\ Cardinality(C25_Flags("Pattern")) = Cardinality(C25_Categories)
             /\ Len(score_result[2])
                    = Cardinality(C25_Flags("High OOS rate"))
                      + Cardinality(C25_Flags("Elevated OOS rate"))
                      + Cardinality(C25_Flags("Pattern"))

\* the 20 tier, which deducts without a flag, beside two pattern flags
C25_Witness ==
    /\ C25_InspectionDone
    /\ C25_Total = 5
    /\ C25_Oos = 1
    /\ Cardinality(C25_Categories) = 2
    /\ score_result[1] = 90
    /\ Len(score_result[2]) = 2

C25_WitnessTiers ==
    /\ C25_InspectionDone
    /\ C25_Total = 10
    /\ C25_Oos = 3
    /\ score_result[1] = 80
    /\ Cardinality(C25_Flags("Elevated OOS rate")) = 1

(***************************************************************************)
(* C29.  calculate_inspection_score counts an inspection as out of service *)
(* whenever its OOS_TOTAL is a positive count (1, 2, 3, ...), as the 'oos' *)
(* of the inspection trend loader does: the score is the one the tiers     *)
(* give for the trend loader's count.                                      *)
(***************************************************************************)
C29_TrendOos == inspection_trend_oos(score_call.inspections)

C29_PositiveCountIsOos ==
    (C25_InspectionDone /\ C25_Total > 0) =>
        score_result[1] =
            IF 100 * C29_TrendOos >= 50 * C25_Total THEN 70
            ELSE IF 100 * C29_TrendOos >= 30 * C25_Total THEN 80
            ELSE IF 100 * C29_TrendOos >= 20 * C25_Total THEN 90
            ELSE 100

C29_Reached ==
    /\ C25_InspectionDone
    /\ C25_Total = 1
    /\ Get(score_call.inspections[1], "OOS_TOTAL") = "2"
    /\ score_result = <<100, <<>> >>

(***************************************************************************)
(* C28.  Every census row that survives prefilter_census_polars, the only  *)
(* eligibility filter of the Polars loading path, is also kept by          *)
(* should_exclude_carrier: the fast path admits no carrier the cascade     *)
(* would exclude.                                                          *)
(***************************************************************************)
C28_PrefilterRefinesCascade ==
    (pc = "load_done" /\ census_rows # <<>>) =>
        \A k \in 1..Len(census_rows) : ~should_exclude_carrier(census_rows[k])[1]

\* a private-property carrier admitted on a government-authority flag
C28_ReachedPrivateProperty ==
    /\ pc = "load_done"
    /\ census_rows = <<census_row>>
    /\ census_row["CLASSDEF"] = <<"PRIVATE PROPERTY">>
    /\ census_row["FEDERAL_GOVERNMENT"] = "X"
    /\ census_row["POWER_UNITS"] = "3"
    /\ census_row["STATUS_CODE"] = "A"
    /\ \A c \in CensusColumns \ {"CLASSDEF", "FEDERAL_GOVERNMENT", "POWER_UNITS",
                                 "STATUS_CODE"} : census_row[c] = ""
    /\ should_exclude_carrier(census_row) = <<TRUE, "private_not_for_hire">>

\* a for-hire carrier with the passenger cargo flag
C28_ReachedPassengerCargo ==
    /\ pc = "load_done"
    /\ census_rows = <<census_row>>
    /\ census_row["CRGO_PASSENGERS"] = "Y"
    /\ census_row["CLASSDEF"] = <<"AUTHORIZED FOR HIRE">>
    /\ should_exclude_carrier(census_row) = <<TRUE, "passenger_operation">>

\* the prefilter also drops rows the cascade keeps
C28_ReachedDroppedButKept ==
    /\ pc = "load_done"
    /\ census_rows = <<>>
    /\ ~should_exclude_carrier(census_row)[1]

(***************************************************************************)
(* C27.  After process_all_carriers every eligible carrier, that is every  *)
(* result with annual_mileage >= 100000, has a rank, a fred_score_grade    *)
(* that is one of the 13 letter grades, and an insurance_rating: neither   *)
(* the threshold walk nor the normalizer skips an eligible carrier.        *)
(***************************************************************************)
C27_Grades == {"A+", "A", "A-", "B+", "B", "B-", "C+", "C", "C-", "D+", "D", "D-", "F"}

C27_EligibleComplete ==
    pc = "done" =>
        \A i \in 1..Len(results) :
            results[i].annual_mileage >= 100000 =>
                /\ results[i].rank # None
                /\ results[i].fred_score_grade \in {Some(g) : g \in C27_Grades}
                /\ results[i].insurance_rating # None

\* an eligible carrier at the threshold itself, one without crashes or
\* violations, and an ineligible one just below the threshold
C27_Witness ==
    /\ pc = "done"
    /\ \E i, j, k \in 1..Len(results) :
            /\ results[i].annual_mileage = 100000
            /\ results[i].rank # None
            /\ results[i].fred_score_grade # None
            /\ results[i].insurance_rating # None
            /\ results[k].crash_count = 0 /\ results[k].violation_count = 0
            /\ results[k].insurance_rating # None
            /\ results[j].annual_mileage = 99999
            /\ results[j].rank = None

(***************************************************************************)
(* C30.  Phase B only fills in the three derived fields.  The step of      *)
(* calculate_insurance_ratings changes nothing but insurance_rating, the   *)
(* step of assign_fred_grades nothing but rank and fred_score_grade: every *)
(* other field of every result, and the length and the order of the        *)
(* results list, stay as they were.                                        *)
(***************************************************************************)
C30_SameBut(fields, old, new) ==
    /\ Len(new) = Len(old)
    /\ \A i \in 1..Len(old) :
            /\ DOMAIN new[i] = DOMAIN old[i]
            /\ \A f \in DOMAIN old[i] \ fields : new[i][f] = old[i][f]

C30_PhaseBFrame ==
    [][ /\ (pc = "scoring" /\ pc' = "grades") =>
                C30_SameBut({"insurance_rating"}, results, results')
        /\ (pc = "grades" /\ pc' # "grades") =>
                C30_SameBut({"rank", "fred_score_grade"}, results, results') ]_vars

\* both steps have written something, and the best carrier is not the first
C30_Witness ==
    /\ pc = "done"
    /\ Len(results) = MaxCarriers
    /\ \E i, j \in 1..Len(results) :
            /\ i < j
            /\ results[j].rank = Some(1)
            /\ results[i].rank = Some(2)
            /\ results[i].insurance_rating # None
            /\ results[i].combined_score < results[j].combined_score
    /\ \E k \in 1..Len(results) : results[k].rank = None /\ k < Len(results)

=============================================================================
